---- MODULE Spec2Model ----
(***************************************************************************)
(* Timeline & Trim Controller (components/Timeline, shipped in             *)
(* src/components/Icons.tsx) together with the owning session (src/App.tsx)*)
(* as one state machine.                                                   *)
(*                                                                         *)
(* Numbers.  A JavaScript number that denotes a time is kept as an exact   *)
(* count of ticks of 1/100 s, so 0.5 s is HalfSecond = 50 ticks and 0.01 s *)
(* is one tick.  Pixel coordinates are integers.  The durations and axis   *)
(* widths of the model are chosen so that every quotient the code forms    *)
(* (x / rect.width * duration) is a whole number of ticks; IEEE rounding   *)
(* is not modelled.  The two non-numeric results the code can produce,     *)
(* NaN and +/-Infinity (division by a zero rect.width), are kept as        *)
(* distinguished values with JavaScript's rules for + - < min max.         *)
(***************************************************************************)
EXTENDS Integers, Sequences, FiniteSets, TLC

(***************************************************************************)
(* Bounds of the model                                                     *)
(***************************************************************************)
\* clientX ranges over RectLeft - Overshoot .. RectLeft + AxisWidth + Overshoot
Overshoot == 1
\* half of the rendered width of a trim handle, in model pixels
HandleHalfWidth == 1
\* files chosen in one run of SpecMediaChange
MaxImports == 2

\* rect.left of the axis element
RectLeft == 1
\* the non-zero rendered width of the axis, in model pixels
AxisWidth == 2
\* rect.width: the axis is laid out AxisWidth wide, or collapsed to nothing
Widths == {0, AxisWidth}
\* importable media, and the duration (ticks) each reports on loadedmetadata
Files == {[name |-> "a.mp4", type |-> "video/mp4", duration |-> 100],
          [name |-> "b.mp4", type |-> "video/mp4", duration |-> 40],
          [name |-> "notes.txt", type |-> "text/plain", duration |-> 0]}
ClientXs == (RectLeft - Overshoot) .. (RectLeft + AxisWidth + Overshoot)
PointerTypes == {"mouse", "touch"}

(***************************************************************************)
(* JavaScript numbers                                                      *)
(***************************************************************************)
Infinity == 2^20
NegInfinity == 0 - Infinity
NaN == 0 - 2^21
IsFinite(a) == a # NaN /\ a # Infinity /\ a # NegInfinity

\* a + b
JsAdd(a, b) ==
  IF a = NaN \/ b = NaN THEN NaN
  ELSE IF a = Infinity THEN (IF b = NegInfinity THEN NaN ELSE Infinity)
  ELSE IF a = NegInfinity THEN (IF b = Infinity THEN NaN ELSE NegInfinity)
  ELSE IF b = Infinity \/ b = NegInfinity THEN b
  ELSE a + b
\* -a
JsNeg(a) ==
  IF a = NaN THEN NaN
  ELSE IF a = Infinity THEN NegInfinity
  ELSE IF a = NegInfinity THEN Infinity
  ELSE 0 - a
\* a - b
JsSub(a, b) == JsAdd(a, JsNeg(b))
\* a < b, a <= b, a > b : every comparison with NaN is false
JsLt(a, b) == a # NaN /\ b # NaN /\ a < b
JsLe(a, b) == a # NaN /\ b # NaN /\ a <= b
JsGt(a, b) == JsLt(b, a)
\* a === b and a !== b on numbers: NaN equals nothing, itself included
JsEq(a, b) == a # NaN /\ b # NaN /\ a = b
JsNe(a, b) == ~JsEq(a, b)
\* Math.min / Math.max: NaN if either argument is NaN
MathMin(a, b) == IF a = NaN \/ b = NaN THEN NaN ELSE IF a < b THEN a ELSE b
MathMax(a, b) == IF a = NaN \/ b = NaN THEN NaN ELSE IF a > b THEN a ELSE b
\* (n / d) * m for integers n, d and a finite m > 0, as the code forms it:
\* n / 0 is +/-Infinity or NaN, and the non-zero cases are exact in the model
JsRatioTimes(n, d, m) ==
  IF d = 0
    THEN (IF n = 0 THEN NaN ELSE IF n > 0 THEN Infinity ELSE NegInfinity)
    ELSE (n * m) \div d

\* the absent value of an optional object (null)
Null == [null |-> TRUE]

VARIABLES
  \* ---- session state (App.tsx) ----
  video,            \* VideoState: file, url, duration, currentTime, isPlaying, isProcessing, frames
  trimRange,        \* TimeRange | null
  aiAnalysis,       \* GeminiAnalysis | null
  extractProgress,  \* percent shown while frames are extracted
  isExporting,
  videoEl,          \* videoRef.current: the <video> element, Null while none is mounted
  pending,          \* the frame extractions in flight (processFrames awaiting
                    \* extractTimelineFrames), by the file and duration they were started for
  \* ---- Timeline state (Icons.tsx) ----
  hoverInfo,        \* {x, time, url} | null
  isScrubbing,
  trimDrag,         \* {mode, startX, startRange} | null
  \* ---- the browser ----
  captured,         \* the axis element holds pointer capture
  pressed,          \* pointer type of the pointer that is down, "none" if none is,
                    \* "two-touch" while a second touch pointer is down as well
  rectWidth,        \* getBoundingClientRect().width of the axis element
  imports,          \* how many files have been chosen where that is bounded (SpecMediaChange)
  \* ---- the session's asynchronous collaborators ----
  isAnalyzing,
  ffmpeg,           \* the memo of ffmpegService: Null, or the FFmpeg object by its state
  calls,            \* the calls of the services that have not settled
  thumbnailUrls,    \* the object URLs made for thumbnails and not revoked
  \* ---- the last handler that ran: its event, what the Timeline was doing
  \* when it was entered, and what it passed to onSeek and onTrimRangeChange ----
  ev

sessionVars == <<video, trimRange, aiAnalysis, extractProgress, isExporting, videoEl, pending>>
timelineVars == <<hoverInfo, isScrubbing, trimDrag>>
browserVars == <<captured, pressed, rectWidth>>
asyncVars == <<isAnalyzing, ffmpeg, calls>>
vars == <<video, trimRange, aiAnalysis, extractProgress, isExporting, videoEl, pending,
          hoverInfo, isScrubbing, trimDrag, captured, pressed, rectWidth, imports,
          isAnalyzing, ffmpeg, calls, thumbnailUrls, ev>>

(***************************************************************************)
(* Timeline: pure helpers                                                  *)
(***************************************************************************)
\* Math.min(0.5, duration) uses this 0.5 s
HalfSecond == 50

\* clamp without its upper bound, and without its lower bound
clampNoUpper(value, min, max) == MathMax(value, min)
clampNoLower(value, min, max) == MathMin(value, max)

\* const clamp = (value, min, max) => Math.min(Math.max(value, min), max)
clamp(value, min, max) == MathMin(MathMax(value, min), max)

\* the reduction with `<=` for `<`: a later thumbnail wins a tie
RECURSIVE reduceNearestLast(_, _, _)
reduceNearestLast(frames, prev, time) ==
  IF frames = <<>> THEN prev
  ELSE LET curr == Head(frames)
           dCurr == JsSub(curr.timestamp, time)
           dPrev == JsSub(prev.timestamp, time)
           absCurr == IF JsLt(dCurr, 0) THEN JsNeg(dCurr) ELSE dCurr
           absPrev == IF JsLt(dPrev, 0) THEN JsNeg(dPrev) ELSE dPrev
       IN reduceNearestLast(Tail(frames), IF JsLe(absCurr, absPrev) THEN curr ELSE prev, time)

\* findFrame: frames.reduce keeps prev unless curr is strictly nearer
RECURSIVE reduceNearest(_, _, _)
reduceNearest(frames, prev, time) ==
  IF frames = <<>> THEN prev
  ELSE LET curr == Head(frames)
           dCurr == JsSub(curr.timestamp, time)
           dPrev == JsSub(prev.timestamp, time)
           absCurr == IF JsLt(dCurr, 0) THEN JsNeg(dCurr) ELSE dCurr
           absPrev == IF JsLt(dPrev, 0) THEN JsNeg(dPrev) ELSE dPrev
       IN reduceNearest(Tail(frames), IF JsLt(absCurr, absPrev) THEN curr ELSE prev, time)

findFrame(frames, time) ==
  IF Len(frames) = 0 THEN Null ELSE reduceNearest(Tail(frames), Head(frames), time)

\* getPosition without the confinement of x / rect.width to [0, 1]
getPositionUnclamped(clientX, width, duration) ==
  IF duration = 0 THEN Null
  ELSE [x |-> clientX - RectLeft, time |-> JsRatioTimes(clientX - RectLeft, width, duration)]

\* getPosition: null when duration === 0 (containerRef.current is set once
\* the component is mounted, and stays set); otherwise
\* x = clientX - rect.left, pos = max(0, min(1, x / rect.width)), time = pos * duration
getPosition(clientX, width, duration) ==
  IF duration = 0 THEN Null
  ELSE LET x == clientX - RectLeft
           time == IF width = 0
                     THEN (IF x = 0 THEN NaN ELSE IF x > 0 THEN duration ELSE 0)
                     ELSE (MathMax(0, MathMin(width, x)) * duration) \div width
       IN [x |-> x, time |-> time]

\* playheadPosition, in percent of the axis width
playheadPosition(currentTime, duration) ==
  IF JsGt(duration, 0) THEN JsRatioTimes(currentTime, duration, 100) ELSE 0

\* where `left: <percent>%` puts the playhead on an axis `width` wide, in px
playheadLeft(percent, width) == JsRatioTimes(percent, 100, width)

\* the drag resolved against the range stored last instead of the snapshot
dragRangeFromStored(drag, clientX, width, duration) ==
  LET rangeDuration == JsSub(trimRange.end, trimRange.start)
      deltaTime == JsRatioTimes(clientX - drag.startX, width, duration)
      pos == getPosition(clientX, width, duration)
  IN IF drag.mode = "move"
       THEN LET nextStart == clamp(JsAdd(trimRange.start, deltaTime), 0,
                                   MathMax(0, JsSub(duration, rangeDuration)))
            IN [start |-> nextStart, end |-> JsAdd(nextStart, rangeDuration)]
       ELSE IF pos = Null THEN Null
       ELSE IF drag.mode = "start"
         THEN [start |-> clamp(pos.time, 0, JsSub(trimRange.end, MathMin(HalfSecond, duration))),
               end |-> trimRange.end]
         ELSE [start |-> trimRange.start,
               end |-> clamp(pos.time, JsAdd(trimRange.start, MathMin(HalfSecond, duration)), duration)]

\* the range handlePointerMove passes to onTrimRangeChange while trimDrag is set
\* (lines 103-126); Null where it returns without emitting
dragRange(drag, clientX, width, duration) ==
  LET minDuration == MathMin(HalfSecond, duration)
      rangeDuration == JsSub(drag.startRange.end, drag.startRange.start)
      deltaTime == JsRatioTimes(clientX - drag.startX, width, duration)
  IN IF drag.mode = "move"
       THEN LET maxStart == MathMax(0, JsSub(duration, rangeDuration))
                nextStart == clamp(JsAdd(drag.startRange.start, deltaTime), 0, maxStart)
            IN [start |-> nextStart, end |-> JsAdd(nextStart, rangeDuration)]
       ELSE LET pos == getPosition(clientX, width, duration)
            IN IF pos = Null THEN Null
               ELSE IF drag.mode = "start"
                 THEN [start |-> clamp(pos.time, 0, JsSub(drag.startRange.end, minDuration)),
                       end |-> drag.startRange.end]
                 ELSE [start |-> drag.startRange.start,
                       end |-> clamp(pos.time, JsAdd(drag.startRange.start, minDuration), duration)]

\* every trim target taken for the range body
modeAlwaysMove(role) == "move"

\* mode chosen by handlePointerDown from the data-role of the event target
modeOfRole(role) ==
  IF role = "trim-range" THEN "move"
  ELSE IF role = "trim-handle-start" THEN "start" ELSE "end"

TrimRoles == {"trim-range", "trim-handle-start", "trim-handle-end"}

(***************************************************************************)
(* Timeline: what is rendered, hence what a pointer can land on            *)
(***************************************************************************)
\* showTrim && trimWidth > 0 (lines 151-154, 204): percentages compared exactly
trimRendered ==
  /\ trimRange # Null
  /\ video.duration > 0
  /\ JsGt(trimRange.end, trimRange.start)

\* the data-role values an event target at clientX can carry; "axis" is the
\* axis element itself (no data-role).  The filmstrip and the playhead are
\* pointer-events-none.  The trim body spans [trimStart%, trimEnd%] of the
\* axis; a handle is centred on its edge and does not scale with the axis.
hitRoles(clientX) ==
  LET x == clientX - RectLeft
      d == video.duration
      w == rectWidth
      near(t) == LET off == x * d - t * w
                 IN off <= HandleHalfWidth * d /\ 0 - off <= HandleHalfWidth * d
  IN (IF w > 0 /\ 0 <= x /\ x <= w THEN {"axis"} ELSE {})
     \cup (IF trimRendered /\ w > 0 /\ trimRange.start * w <= x * d /\ x * d <= trimRange.end * w
             THEN {"trim-range"} ELSE {})
     \cup (IF trimRendered /\ near(trimRange.start) THEN {"trim-handle-start"} ELSE {})
     \cup (IF trimRendered /\ near(trimRange.end) THEN {"trim-handle-end"} ELSE {})

(***************************************************************************)
(* The <video> element behind videoRef                                     *)
(***************************************************************************)
\* `el.currentTime = v` throws a TypeError for a non-finite v
setterThrows(v) == ~IsFinite(v)
\* `el.currentTime = v` for a finite v: a seek, which the element confines to
\* [0, duration] once metadata is known; before that the value is kept as the
\* default playback start position, which the getter returns
elementSeek(el, v) ==
  IF el.ready THEN [el EXCEPT !.currentTime = clamp(v, 0, el.duration)]
  ELSE [el EXCEPT !.currentTime = v]

(***************************************************************************)
(* Session (App.tsx): what the callbacks handed to Timeline do             *)
(***************************************************************************)
\* clampToRange(time, range)
clampToRange(time, range) ==
  IF range = Null THEN time ELSE MathMin(MathMax(time, range.start), range.end)

\* updateTrimRange(range): the session state after the call, and whether the
\* assignment to videoRef.current.currentTime threw
updateTrimRange(range) ==
  LET normalized == IF JsLe(range.start, range.end) THEN range
                    ELSE [start |-> range.end, end |-> range.start]
      clamped == IF videoEl = Null THEN NaN
                 ELSE clampToRange(videoEl.currentTime, normalized)
  IN IF videoEl = Null \/ JsEq(clamped, videoEl.currentTime)
       THEN [trimRange |-> normalized, videoEl |-> videoEl, video |-> video, threw |-> FALSE]
     ELSE IF setterThrows(clamped)
       THEN [trimRange |-> normalized, videoEl |-> videoEl, video |-> video, threw |-> TRUE]
     ELSE [trimRange |-> normalized,
           videoEl |-> elementSeek(videoEl, clamped),
           video |-> [video EXCEPT !.currentTime = clamped],
           threw |-> FALSE]

\* handleSeek(time)
handleSeek(time) ==
  LET clamped == clampToRange(time, trimRange)
  IN IF videoEl = Null
       THEN [videoEl |-> videoEl, video |-> video, threw |-> FALSE]
     ELSE IF setterThrows(clamped)
       THEN [videoEl |-> videoEl, video |-> video, threw |-> TRUE]
     ELSE [videoEl |-> elementSeek(videoEl, clamped),
           video |-> [video EXCEPT !.currentTime = clamped],
           threw |-> FALSE]

(***************************************************************************)
(* Timeline: handlers                                                      *)
(***************************************************************************)
\* updateHover that shows the first thumbnail whatever the time
updateHoverFirstFrame(clientX) ==
  LET pos == getPosition(clientX, rectWidth, video.duration)
  IN IF pos = Null THEN hoverInfo
     ELSE [x |-> pos.x, time |-> pos.time,
           url |-> IF video.frames # <<>> THEN video.frames[1].url ELSE Null]

\* updateHover(clientX): the hoverInfo it leaves
updateHover(clientX) ==
  LET pos == getPosition(clientX, rectWidth, video.duration)
  IN IF pos = Null THEN hoverInfo
     ELSE LET frame == findFrame(video.frames, pos.time)
          IN [x |-> pos.x, time |-> pos.time,
              url |-> IF frame # Null THEN frame.url ELSE Null]

\* scrubTo that never calls onSeek
scrubToNothing(clientX) == <<>>

\* scrubTo without the confinement of the pointer to the axis
scrubToUnconfined(clientX) ==
  <<((clientX - RectLeft) * video.duration) \div rectWidth>>

\* scrubTo(clientX): the times it passes to onSeek
scrubTo(clientX) ==
  LET pos == getPosition(clientX, rectWidth, video.duration)
  IN IF pos = Null THEN <<>> ELSE <<pos.time>>

\* what the Timeline was doing when the handler was entered
gestureMode ==
  IF trimDrag # Null THEN trimDrag.mode ELSE IF isScrubbing THEN "scrub" ELSE "idle"

Event(type, clientX, role, seeks, trims) ==
  [type |-> type, clientX |-> clientX, role |-> role, during |-> gestureMode,
   seeks |-> seeks, trims |-> trims]
NoEvent(type) == Event(type, 0, "", <<>>, <<>>)

\* handlePointerDown(e) with e.clientX, e.pointerType and e.target.dataset.role
handlePointerDown(clientX, pointerType, role) ==
  IF video.duration = 0
    THEN /\ ev' = Event("down", clientX, role, <<>>, <<>>)
         /\ UNCHANGED <<sessionVars, timelineVars, captured>>
  ELSE IF trimRange # Null /\ role \in TrimRoles
    THEN /\ captured' = TRUE
         /\ trimDrag' = [mode |-> modeOfRole(role), startX |-> clientX, startRange |-> trimRange]
         /\ ev' = Event("down", clientX, role, <<>>, <<>>)
         /\ UNCHANGED <<sessionVars, hoverInfo, isScrubbing>>
  ELSE LET seeks == scrubTo(clientX)
           after == IF seeks = <<>>
                      THEN [videoEl |-> videoEl, video |-> video, threw |-> FALSE]
                      ELSE handleSeek(seeks[1])
       IN /\ captured' = TRUE
          /\ isScrubbing' = TRUE
          /\ video' = after.video
          /\ videoEl' = after.videoEl
          /\ hoverInfo' = IF ~after.threw /\ pointerType = "mouse"
                            THEN updateHover(clientX) ELSE hoverInfo
          /\ ev' = Event("down", clientX, role, seeks, <<>>)
          /\ UNCHANGED <<trimRange, aiAnalysis, extractProgress, isExporting, pending, trimDrag>>

\* handlePointerMove(e)
handlePointerMove(clientX, pointerType) ==
  IF video.duration = 0
    THEN /\ ev' = Event("move", clientX, "", <<>>, <<>>)
         /\ UNCHANGED <<sessionVars, timelineVars, captured>>
  ELSE IF trimDrag # Null
    THEN LET range == dragRange(trimDrag, clientX, rectWidth, video.duration)
         IN IF range = Null
              THEN /\ ev' = Event("move", clientX, "", <<>>, <<>>)
                   /\ UNCHANGED <<sessionVars, timelineVars, captured>>
              ELSE LET after == updateTrimRange(range)
                   IN /\ trimRange' = after.trimRange
                      /\ video' = after.video
                      /\ videoEl' = after.videoEl
                      /\ ev' = Event("move", clientX, "", <<>>, <<range>>)
                      /\ UNCHANGED <<aiAnalysis, extractProgress, isExporting, pending,
                                     timelineVars, captured>>
  ELSE LET seeks == IF isScrubbing THEN scrubTo(clientX) ELSE <<>>
           after == IF seeks = <<>>
                      THEN [videoEl |-> videoEl, video |-> video, threw |-> FALSE]
                      ELSE handleSeek(seeks[1])
       IN /\ hoverInfo' = IF pointerType = "mouse" THEN updateHover(clientX) ELSE hoverInfo
          /\ video' = after.video
          /\ videoEl' = after.videoEl
          /\ ev' = Event("move", clientX, "", seeks, <<>>)
          /\ UNCHANGED <<trimRange, aiAnalysis, extractProgress, isExporting, pending,
                         isScrubbing, trimDrag, captured>>

\* handlePointerUp that leaves the DragSession in place
handlePointerUpKeepsDrag ==
  /\ captured' = FALSE
  /\ isScrubbing' = FALSE
  /\ ev' = NoEvent("up")
  /\ UNCHANGED <<sessionVars, hoverInfo, trimDrag>>

\* handlePointerUp(e), which releases the capture of e.pointerId alone:
\* `held` says whether the axis still holds the capture of another pointer
pointerUpWhile(held) ==
  /\ captured' = held
  /\ trimDrag' = Null
  /\ isScrubbing' = FALSE
  /\ ev' = NoEvent("up")
  /\ UNCHANGED <<sessionVars, hoverInfo>>

\* handlePointerUp(e) of the only pointer that is down
handlePointerUp == pointerUpWhile(FALSE)

\* handlePointerCancel that leaves the hover preview in place
handlePointerCancelKeepsHover ==
  /\ captured' = FALSE
  /\ isScrubbing' = FALSE
  /\ trimDrag' = Null
  /\ ev' = NoEvent("cancel")
  /\ UNCHANGED <<sessionVars, hoverInfo>>

\* handlePointerCancel(e)
handlePointerCancel ==
  /\ captured' = FALSE
  /\ isScrubbing' = FALSE
  /\ hoverInfo' = Null
  /\ trimDrag' = Null
  /\ ev' = NoEvent("cancel")
  /\ UNCHANGED sessionVars

\* onPointerLeave that also rewinds the session
handlePointerLeaveRewinds ==
  /\ hoverInfo' = IF ~isScrubbing THEN Null ELSE hoverInfo
  /\ video' = [video EXCEPT !.currentTime = 0]
  /\ ev' = NoEvent("leave")
  /\ UNCHANGED <<trimRange, aiAnalysis, extractProgress, isExporting, videoEl, pending,
                 isScrubbing, trimDrag, captured>>

\* onPointerLeave={() => { if (!isScrubbing) setHoverInfo(null); }}
handlePointerLeave ==
  /\ hoverInfo' = IF ~isScrubbing THEN Null ELSE hoverInfo
  /\ ev' = NoEvent("leave")
  /\ UNCHANGED <<sessionVars, isScrubbing, trimDrag, captured>>

(***************************************************************************)
(* Frame sampler, as far as the session sees it                            *)
(***************************************************************************)
\* Math.min(30, Math.max(10, Math.floor(safeDuration * 1.5))), duration in ticks
totalFrames(duration) == MathMin(30, MathMax(10, (3 * duration) \div 200))

\* the thumbnails an extraction of `file` with `duration` resolves to
RECURSIVE framesFrom(_, _, _)
framesFrom(file, duration, i) ==
  IF i >= totalFrames(duration) THEN <<>>
  ELSE <<[timestamp |-> MathMin(MathMax(0, duration - 1), (i * duration) \div totalFrames(duration)),
          url |-> [blob |-> file.name, index |-> i]]>>
       \o framesFrom(file, duration, i + 1)

extractTimelineFrames(file, duration) ==
  IF IsFinite(duration) /\ duration > 0 THEN framesFrom(file, duration, 0) ELSE <<>>

\* the object URLs of the thumbnails `frames`
urlsOf(frames) == {frames[i].url : i \in 1..Len(frames)}

(***************************************************************************)
(* Session (App.tsx): handlers                                             *)
(***************************************************************************)
InitialVideo ==
  [file |-> Null, url |-> Null, duration |-> 0, currentTime |-> 0,
   isPlaying |-> FALSE, isProcessing |-> FALSE, frames |-> <<>>]

\* handleFile(file).  Giving the <video> a new src restarts its resource
\* selection: position 0, paused, no metadata.
handleFile(file) ==
  IF file.type \notin {"video/mp4"}
    THEN /\ ev' = NoEvent("file")
         /\ UNCHANGED <<sessionVars, timelineVars, browserVars, thumbnailUrls>>
    ELSE /\ video' = [video EXCEPT !.file = file, !.url = [blob |-> file.name],
                                   !.isProcessing = TRUE, !.frames = <<>>]
         /\ aiAnalysis' = Null
         /\ extractProgress' = 0
         /\ trimRange' = Null
         /\ videoEl' = [currentTime |-> 0, paused |-> TRUE, ready |-> FALSE, duration |-> NaN]
         /\ ev' = NoEvent("file")
         /\ UNCHANGED <<isExporting, pending, timelineVars, browserVars, thumbnailUrls>>

\* onLoadedMetadata(e): e.currentTarget.duration is the duration of the file;
\* processFrames(video.file, duration) is started and left in flight
onLoadedMetadata ==
  LET duration == video.file.duration
  IN /\ videoEl # Null
     /\ ~videoEl.ready
     /\ videoEl' = [videoEl EXCEPT !.ready = TRUE, !.duration = duration,
                                   !.currentTime = clamp(videoEl.currentTime, 0, duration)]
     /\ video' = [video EXCEPT !.duration = duration]
     /\ trimRange' = [start |-> 0, end |-> duration]
     /\ pending' = pending \cup {[file |-> video.file, duration |-> duration]}
     /\ ev' = NoEvent("loadedmetadata")
     /\ UNCHANGED <<aiAnalysis, extractProgress, isExporting, timelineVars, browserVars>>

\* processFrames: extractTimelineFrames resolved (line 118); the last progress
\* callback has reported 1
processFramesResolved(job) ==
  /\ video' = [video EXCEPT !.frames = extractTimelineFrames(job.file, job.duration),
                            !.isProcessing = FALSE]
  /\ extractProgress' = 100
  /\ pending' = pending \ {job}
  /\ thumbnailUrls' = thumbnailUrls \cup urlsOf(extractTimelineFrames(job.file, job.duration))
  /\ ev' = NoEvent("frames")
  /\ UNCHANGED <<trimRange, aiAnalysis, isExporting, videoEl, timelineVars, browserVars>>

\* processFrames: extractTimelineFrames rejected (lines 119-123)
processFramesRejected(job) ==
  /\ video' = [video EXCEPT !.isProcessing = FALSE]
  /\ pending' = pending \ {job}
  /\ ev' = NoEvent("frames-failed")
  /\ UNCHANGED <<trimRange, aiAnalysis, extractProgress, isExporting, videoEl,
                 timelineVars, browserVars, thumbnailUrls>>

\* reset(): the <video> is unmounted with video.url
reset ==
  /\ video' = InitialVideo
  /\ aiAnalysis' = Null
  /\ extractProgress' = 0
  /\ trimRange' = Null
  /\ isExporting' = FALSE
  /\ videoEl' = Null
  /\ thumbnailUrls' = thumbnailUrls \ urlsOf(video.frames)
  /\ ev' = NoEvent("reset")
  /\ UNCHANGED <<pending, timelineVars, browserVars>>

(***************************************************************************)
(* Session (App.tsx): playback                                             *)
(***************************************************************************)
PlayEndSlack == 2
SkipSeconds == 500
PlayStep == 25
MaxPosition == 500

\* el.play(): playback that has ended starts over from the beginning
elementPlay(el) ==
  [el EXCEPT !.paused = FALSE,
             !.currentTime = IF el.ready /\ el.currentTime = el.duration THEN 0 ELSE @]

\* a handlePlayPause that never starts over from the range start
handlePlayPauseNoRestart ==
  /\ ev' = NoEvent("playpause")
  /\ IF videoEl = Null
       THEN UNCHANGED <<video, videoEl>>
     ELSE IF video.isPlaying
       THEN /\ videoEl' = [videoEl EXCEPT !.paused = TRUE]
            /\ video' = [video EXCEPT !.isPlaying = FALSE]
     ELSE LET nextTime == clampToRange(videoEl.currentTime, trimRange)
          IN IF JsNe(nextTime, videoEl.currentTime) /\ setterThrows(nextTime)
               THEN UNCHANGED <<video, videoEl>>
               ELSE /\ videoEl' = elementPlay(IF JsNe(nextTime, videoEl.currentTime)
                                                THEN elementSeek(videoEl, nextTime)
                                                ELSE videoEl)
                    /\ video' = [video EXCEPT !.isPlaying = TRUE, !.currentTime = nextTime]
  /\ UNCHANGED <<trimRange, aiAnalysis, extractProgress, isExporting, pending,
                 timelineVars, browserVars>>

\* handlePlayPause()
handlePlayPause ==
  /\ ev' = NoEvent("playpause")
  /\ IF videoEl = Null
       THEN UNCHANGED <<video, videoEl>>
     ELSE IF video.isPlaying
       THEN /\ videoEl' = [videoEl EXCEPT !.paused = TRUE]
            /\ video' = [video EXCEPT !.isPlaying = FALSE]
     ELSE LET rangeStart == IF trimRange # Null THEN trimRange.start ELSE 0
              rangeEnd == IF trimRange # Null THEN trimRange.end ELSE video.duration
              atEnd == IsFinite(rangeEnd) /\ JsLe(JsSub(rangeEnd, PlayEndSlack), videoEl.currentTime)
              nextTime == clampToRange(IF atEnd THEN rangeStart ELSE videoEl.currentTime, trimRange)
          IN IF JsNe(nextTime, videoEl.currentTime) /\ setterThrows(nextTime)
               THEN UNCHANGED <<video, videoEl>>
               ELSE /\ videoEl' = elementPlay(IF JsNe(nextTime, videoEl.currentTime)
                                                THEN elementSeek(videoEl, nextTime)
                                                ELSE videoEl)
                    /\ video' = [video EXCEPT !.isPlaying = TRUE, !.currentTime = nextTime]
  /\ UNCHANGED <<trimRange, aiAnalysis, extractProgress, isExporting, pending,
                 timelineVars, browserVars>>

\* a handleTimeUpdate that puts the position back at the range end without
\* pausing
handleTimeUpdateKeepsPlaying ==
  LET current == videoEl.currentTime
  IN /\ ev' = NoEvent("timeupdate")
     /\ IF videoEl = Null
          THEN UNCHANGED <<video, videoEl>>
        ELSE IF trimRange # Null /\ JsLt(current, trimRange.start)
          THEN IF setterThrows(trimRange.start)
                 THEN UNCHANGED <<video, videoEl>>
                 ELSE /\ videoEl' = elementSeek(videoEl, trimRange.start)
                      /\ video' = [video EXCEPT !.currentTime = trimRange.start]
        ELSE IF trimRange # Null /\ JsGt(current, trimRange.end)
          THEN IF setterThrows(trimRange.end)
                 THEN UNCHANGED <<video, videoEl>>
                 ELSE /\ videoEl' = elementSeek(videoEl, trimRange.end)
                      /\ video' = [video EXCEPT !.currentTime = trimRange.end]
        ELSE /\ video' = [video EXCEPT !.currentTime = current]
             /\ UNCHANGED videoEl
     /\ UNCHANGED <<trimRange, aiAnalysis, extractProgress, isExporting, pending,
                    timelineVars, browserVars>>

\* handleTimeUpdate()
handleTimeUpdate ==
  LET current == videoEl.currentTime
  IN /\ ev' = NoEvent("timeupdate")
     /\ IF videoEl = Null
          THEN UNCHANGED <<video, videoEl>>
        ELSE IF trimRange # Null /\ JsLt(current, trimRange.start)
          THEN IF setterThrows(trimRange.start)
                 THEN UNCHANGED <<video, videoEl>>
                 ELSE /\ videoEl' = elementSeek(videoEl, trimRange.start)
                      /\ video' = [video EXCEPT !.currentTime = trimRange.start]
        ELSE IF trimRange # Null /\ JsGt(current, trimRange.end)
          THEN IF setterThrows(trimRange.end)
                 THEN /\ videoEl' = [videoEl EXCEPT !.paused = TRUE]
                      /\ UNCHANGED video
                 ELSE /\ videoEl' = elementSeek([videoEl EXCEPT !.paused = TRUE], trimRange.end)
                      /\ video' = [video EXCEPT !.currentTime = trimRange.end,
                                                !.isPlaying = FALSE]
        ELSE /\ video' = [video EXCEPT !.currentTime = current]
             /\ UNCHANGED videoEl
     /\ UNCHANGED <<trimRange, aiAnalysis, extractProgress, isExporting, pending,
                    timelineVars, browserVars>>

\* the skip buttons: handleSeek(video.currentTime + by)
skip(type, by) ==
  LET after == handleSeek(JsAdd(video.currentTime, by))
  IN /\ video' = after.video
     /\ videoEl' = after.videoEl
     /\ ev' = Event(type, 0, "", <<JsAdd(video.currentTime, by)>>, <<>>)
     /\ UNCHANGED <<trimRange, aiAnalysis, extractProgress, isExporting, pending,
                    timelineVars, browserVars>>

\* the element plays on by PlayStep; at the end of the media it pauses itself
\* (ended), for which the session has no handler
playOn ==
  LET reached == MathMin(videoEl.currentTime + PlayStep, videoEl.duration)
  IN /\ videoEl' = [videoEl EXCEPT !.currentTime = reached,
                                   !.paused = (reached = videoEl.duration)]
     /\ ev' = NoEvent("playing")
     /\ UNCHANGED <<video, trimRange, aiAnalysis, extractProgress, isExporting, pending,
                    timelineVars, browserVars>>

\* the user agent seeks the element by itself (the native controls that the
\* context menu of a <video> offers, a picture-in-picture window): the session
\* hears of it through timeupdate only
surfaceSeeks(time) ==
  /\ videoEl' = elementSeek(videoEl, time)
  /\ ev' = NoEvent("surface-seek")
  /\ UNCHANGED <<video, trimRange, aiAnalysis, extractProgress, isExporting, pending,
                 timelineVars, browserVars>>

(***************************************************************************)
(* The events that drive the program                                       *)
(***************************************************************************)
\* a pointer event reaches the axis element when the axis holds the pointer's
\* capture or the pointer is over the axis or one of its children
reachesAxis(clientX) == captured \/ hitRoles(clientX) # {}

PointerDownOf(types) ==
  \E clientX \in ClientXs, pointerType \in types :
    \E role \in hitRoles(clientX) :
      /\ pressed = "none"
      /\ handlePointerDown(clientX, pointerType, role)
      /\ pressed' = pointerType
      /\ UNCHANGED <<rectWidth, imports, asyncVars, thumbnailUrls>>

\* a touch pointer exists only while it is down; the events of one gesture
\* come from one pointer
PointerMoveOf(types) ==
  \E clientX \in ClientXs, pointerType \in types :
    /\ pointerType = IF pressed = "none" THEN "mouse" ELSE pressed
    /\ reachesAxis(clientX)
    /\ handlePointerMove(clientX, pointerType)
    /\ UNCHANGED <<pressed, rectWidth, imports, asyncVars, thumbnailUrls>>

PointerDown == PointerDownOf(PointerTypes)
PointerMove == PointerMoveOf(PointerTypes)
TouchDown == PointerDownOf({"touch"})
TouchMove == PointerMoveOf({"touch"})
MouseDown == PointerDownOf({"mouse"})
MouseMove == PointerMoveOf({"mouse"})

PointerUp ==
  /\ pressed # "none"
  /\ \E clientX \in ClientXs : reachesAxis(clientX)
  /\ handlePointerUp
  /\ pressed' = "none"
  /\ UNCHANGED <<rectWidth, imports, asyncVars, thumbnailUrls>>

PointerCancel ==
  /\ pressed # "none"
  /\ \E clientX \in ClientXs : reachesAxis(clientX)
  /\ handlePointerCancel
  /\ pressed' = "none"
  /\ UNCHANGED <<rectWidth, imports, asyncVars, thumbnailUrls>>

\* the pointer leaves the axis, which does not hold its capture
PointerLeave ==
  /\ ~captured
  /\ handlePointerLeave
  /\ UNCHANGED <<pressed, rectWidth, imports, asyncVars, thumbnailUrls>>

\* the pointer is released away from the axis, which does not hold its
\* capture: no handler of the Timeline runs
PointerUpElsewhere ==
  /\ pressed # "none"
  /\ ~captured
  /\ pressed' = "none"
  /\ ev' = NoEvent("up-elsewhere")
  /\ UNCHANGED <<sessionVars, timelineVars, captured, rectWidth, imports, asyncVars, thumbnailUrls>>

\* a second finger goes down on the axis while the first is down, the media
\* being loaded (both captures are then held by the axis)
SecondTouchDown ==
  \E clientX \in ClientXs :
    \E role \in hitRoles(clientX) :
      /\ pressed = "touch"
      /\ captured
      /\ handlePointerDown(clientX, "touch", role)
      /\ pressed' = "two-touch"
      /\ UNCHANGED <<rectWidth, imports, asyncVars, thumbnailUrls>>

\* either of the two fingers moves
TwoTouchMove ==
  \E clientX \in ClientXs :
    /\ pressed = "two-touch"
    /\ handlePointerMove(clientX, "touch")
    /\ UNCHANGED <<pressed, rectWidth, imports, asyncVars, thumbnailUrls>>

\* either of the two fingers is lifted; the capture of the other stays
TwoTouchUp ==
  /\ pressed = "two-touch"
  /\ pointerUpWhile(TRUE)
  /\ pressed' = "touch"
  /\ UNCHANGED <<rectWidth, imports, asyncVars, thumbnailUrls>>

\* the axis loses the pointer's capture while the pointer is still down (the
\* browser fires lostpointercapture); the axis has no handler for it
\* (lines 174-184), so nothing of the Timeline runs
LostPointerCapture ==
  /\ pressed # "none"
  /\ captured
  /\ captured' = FALSE
  /\ ev' = NoEvent("lostpointercapture")
  /\ UNCHANGED <<sessionVars, timelineVars, pressed, rectWidth, imports, asyncVars, thumbnailUrls>>

\* layout gives the axis another width
Resize ==
  \E w \in Widths \ {rectWidth} :
    /\ rectWidth' = w
    /\ ev' = NoEvent("resize")
    /\ UNCHANGED <<sessionVars, timelineVars, captured, pressed, imports, asyncVars, thumbnailUrls>>

Import ==
  \E file \in Files : handleFile(file) /\ UNCHANGED <<imports, asyncVars>>

\* the same, for at most MaxImports files
ImportSome ==
  /\ imports < MaxImports
  /\ imports' = imports + 1
  /\ \E file \in Files : handleFile(file)
  /\ UNCHANGED asyncVars

LoadedMetadata == onLoadedMetadata /\ UNCHANGED <<imports, asyncVars, thumbnailUrls>>

FramesExtracted == \E job \in pending : processFramesResolved(job) /\ UNCHANGED <<imports, asyncVars>>

FramesFailed == \E job \in pending : processFramesRejected(job) /\ UNCHANGED <<imports, asyncVars>>

Reset == reset /\ UNCHANGED <<imports, asyncVars>>

\* no pointer is down
\* the play button, or a click on the <video>
PlayPause == video.url # Null /\ handlePlayPause /\ UNCHANGED <<imports, asyncVars, thumbnailUrls>>

\* timeupdate of the <video>
TimeUpdate == videoEl # Null /\ videoEl.ready /\ handleTimeUpdate /\ UNCHANGED <<imports, asyncVars, thumbnailUrls>>

\* the skip buttons, pressed while the time asked for is within MaxPosition of 0
\* (before the metadata has loaded nothing else bounds it)
SkipBack ==
  /\ video.url # Null
  /\ video.currentTime - SkipSeconds >= 0 - MaxPosition
  /\ skip("skip-back", 0 - SkipSeconds)
  /\ UNCHANGED <<imports, asyncVars, thumbnailUrls>>

SkipForward ==
  /\ video.url # Null
  /\ video.currentTime + SkipSeconds <= MaxPosition
  /\ skip("skip-forward", SkipSeconds)
  /\ UNCHANGED <<imports, asyncVars, thumbnailUrls>>

\* time passes while the element is playing
PlayOn ==
  /\ videoEl # Null
  /\ videoEl.ready
  /\ ~videoEl.paused
  /\ IsFinite(videoEl.duration)
  /\ videoEl.currentTime < videoEl.duration
  /\ playOn
  /\ UNCHANGED <<imports, asyncVars, thumbnailUrls>>

\* the positions the user agent's own controls are used to reach
SurfacePositions == {0, 25, 50, 75, 100}

SurfaceSeeks ==
  /\ videoEl # Null
  /\ videoEl.ready
  /\ \E time \in SurfacePositions : surfaceSeeks(time)
  /\ UNCHANGED <<imports, asyncVars, thumbnailUrls>>

BetweenGestures == pressed = "none"

Init ==
  /\ video = InitialVideo
  /\ trimRange = Null
  /\ aiAnalysis = Null
  /\ extractProgress = 0
  /\ isExporting = FALSE
  /\ videoEl = Null
  /\ pending = {}
  /\ hoverInfo = Null
  /\ isScrubbing = FALSE
  /\ trimDrag = Null
  /\ captured = FALSE
  /\ pressed = "none"
  /\ rectWidth = AxisWidth
  /\ imports = 0
  /\ isAnalyzing = FALSE
  /\ ffmpeg = Null
  /\ calls = {}
  /\ thumbnailUrls = {}
  /\ ev = NoEvent("init")

\* One pointer, whose gestures are delivered in order (down, moves, then up or
\* cancel); the media is imported, loaded and reset between gestures; the
\* axis keeps its width.  The frame extractions started on loadedmetadata stay
\* in flight in this and the following specifications.  No handler reads
\* hoverInfo, so a specification with a touch pointer alone shows every
\* behaviour of the other variables.
Next ==
  \/ PointerDown
  \/ PointerMove
  \/ PointerUp
  \/ PointerCancel
  \/ PointerLeave
  \/ PointerUpElsewhere
  \/ BetweenGestures /\ Import
  \/ BetweenGestures /\ LoadedMetadata
  \/ BetweenGestures /\ Reset

Spec == Init /\ [][Next]_vars

\* A mouse, at most MaxImports files chosen between gestures, and an axis
\* that may be laid out anew, collapsed to no width included.
NextResize ==
  \/ MouseDown
  \/ MouseMove
  \/ PointerUp
  \/ PointerCancel
  \/ PointerLeave
  \/ PointerUpElsewhere
  \/ BetweenGestures /\ ImportSome
  \/ BetweenGestures /\ LoadedMetadata
  \/ BetweenGestures /\ Reset
  \/ Resize

SpecResize == Init /\ [][NextResize]_vars

\* A touch pointer, at most MaxImports files chosen between gestures, and an
\* axis that may lose the capture of the pointer that is down.
NextCaptureLoss ==
  \/ TouchDown
  \/ TouchMove
  \/ PointerUp
  \/ PointerCancel
  \/ PointerLeave
  \/ PointerUpElsewhere
  \/ BetweenGestures /\ ImportSome
  \/ BetweenGestures /\ LoadedMetadata
  \/ BetweenGestures /\ Reset
  \/ LostPointerCapture

SpecCaptureLoss == Init /\ [][NextCaptureLoss]_vars

\* Touch pointers, a second of which may go down while the first is down; at
\* most MaxImports files chosen between gestures.
NextOverlap ==
  \/ TouchDown
  \/ TouchMove
  \/ pressed # "two-touch" /\ PointerUp
  \/ pressed # "two-touch" /\ PointerCancel
  \/ PointerLeave
  \/ PointerUpElsewhere
  \/ SecondTouchDown
  \/ TwoTouchMove
  \/ TwoTouchUp
  \/ BetweenGestures /\ ImportSome
  \/ BetweenGestures /\ LoadedMetadata
  \/ BetweenGestures /\ Reset

SpecOverlap == Init /\ [][NextOverlap]_vars

\* A touch pointer; the media may be imported, loaded and reset at any time,
\* in the middle of a gesture too.
NextMediaChange ==
  \/ TouchDown
  \/ TouchMove
  \/ PointerUp
  \/ PointerCancel
  \/ PointerLeave
  \/ PointerUpElsewhere
  \/ ImportSome
  \/ LoadedMetadata
  \/ Reset

SpecMediaChange == Init /\ [][NextMediaChange]_vars

\* A touch pointer whose gestures are delivered in order, and playback: the
\* play/pause and skip buttons, the element playing on, its timeupdate events.
\* At most MaxImports files are chosen, between gestures.
NextPlayback ==
  \/ TouchDown
  \/ TouchMove
  \/ PointerUp
  \/ PointerCancel
  \/ PointerLeave
  \/ PointerUpElsewhere
  \/ PlayPause
  \/ TimeUpdate
  \/ SkipBack
  \/ SkipForward
  \/ PlayOn
  \/ BetweenGestures /\ ImportSome
  \/ BetweenGestures /\ LoadedMetadata
  \/ BetweenGestures /\ Reset

SpecPlayback == Init /\ [][NextPlayback]_vars

\* Playback of one file with the user agent's own controls in reach: the
\* position the element reports is not only where the session put it.  A
\* touch pointer whose gestures are delivered in order.
NextNotify ==
  \/ TouchDown
  \/ TouchMove
  \/ PointerUp
  \/ PlayPause
  \/ TimeUpdate
  \/ PlayOn
  \/ SurfaceSeeks
  \/ BetweenGestures /\ imports = 0 /\ ImportSome
  \/ BetweenGestures /\ LoadedMetadata

SpecNotify == Init /\ [][NextNotify]_vars

\* One file, whose thumbnails arrive or fail to; a mouse or a touch pointer
\* whose gestures are delivered in order.
NextHover ==
  \/ PointerDown
  \/ PointerMove
  \/ PointerUp
  \/ PointerCancel
  \/ PointerLeave
  \/ PointerUpElsewhere
  \/ BetweenGestures /\ imports = 0 /\ ImportSome
  \/ BetweenGestures /\ LoadedMetadata
  \/ FramesExtracted
  \/ FramesFailed

SpecHover == Init /\ [][NextHover]_vars

(***************************************************************************)
(* The Timeline's pure functions, called on their own: the call and its    *)
(* arguments are drawn by the initial state, the action applies the        *)
(* function and records what it returned                                   *)
(***************************************************************************)
MaxFrames == 4
FrameTimes == {0, 200, 400, 600}
LookupTimes == {0, 100, 300, 450, 700}

\* the frames prop for a sequence of timestamps; the url tells the thumbnails
\* of equal timestamp apart
framesOf(timestamps) ==
  [i \in 1..Len(timestamps) |->
     [timestamp |-> timestamps[i], url |-> [blob |-> "call", index |-> i - 1]]]

FindFrameCalls ==
  {[type |-> "findFrame", done |-> FALSE, frames |-> framesOf(ts), time |-> t, result |-> Null] :
     ts \in UNION {[1..n -> FrameTimes] : n \in 0..MaxFrames}, t \in LookupTimes}

CallWidths == {2, 25, 100}
CallDurations == {40, 100, 1000}

GetPositionCalls ==
  {[type |-> "getPosition", done |-> FALSE, clientX |-> x, width |-> w, duration |-> d,
    result |-> Null] :
     x \in (RectLeft - Overshoot - 1)..(RectLeft + 100 + Overshoot + 1),
     w \in CallWidths, d \in CallDurations}

\* a playhead time rendered on the axis whose percent and pixel are whole, so
\* that no step of the way back is rounded
RoundTripCalls ==
  {c \in [type : {"roundTrip"}, done : {FALSE}, time : 0..1000, width : CallWidths,
          duration : CallDurations, result : {Null}] :
     /\ c.time <= c.duration
     /\ (c.time * 100) % c.duration = 0
     /\ (((c.time * 100) \div c.duration) * c.width) % 100 = 0}

\* a DragSession snapshotted at startX, resolved for a pointer at most one
\* axis width away, on an axis 25 px wide over 10 s
DragRangeCalls ==
  {[type |-> "dragRange", done |-> FALSE,
    drag |-> [mode |-> mode, startX |-> startX, startRange |-> startRange],
    clientX |-> startX + dx, width |-> 25, duration |-> 1000, result |-> Null] :
     mode \in {"move", "start", "end"},
     startX \in {RectLeft, RectLeft + 5},
     startRange \in {[start |-> 200, end |-> 500], [start |-> 0, end |-> 1000]},
     dx \in (0 - 25)..25}

Calls == FindFrameCalls \cup GetPositionCalls \cup RoundTripCalls \cup DragRangeCalls

InitCalls ==
  /\ video = InitialVideo
  /\ trimRange = Null
  /\ aiAnalysis = Null
  /\ extractProgress = 0
  /\ isExporting = FALSE
  /\ videoEl = Null
  /\ pending = {}
  /\ hoverInfo = Null
  /\ isScrubbing = FALSE
  /\ trimDrag = Null
  /\ captured = FALSE
  /\ pressed = "none"
  /\ rectWidth = AxisWidth
  /\ imports = 0
  /\ isAnalyzing = FALSE
  /\ ffmpeg = Null
  /\ calls = {}
  /\ thumbnailUrls = {}
  /\ ev \in Calls

Returned(type, result) ==
  /\ ev.type = type
  /\ ~ev.done
  /\ ev' = [ev EXCEPT !.done = TRUE, !.result = result]
  /\ UNCHANGED <<sessionVars, timelineVars, browserVars, imports, asyncVars, thumbnailUrls>>

CallFindFrame == Returned("findFrame", findFrame(ev.frames, ev.time))

CallGetPosition ==
  Returned("getPosition", getPosition(ev.clientX, ev.width, ev.duration))

\* the pointer put where the playhead of ev.time is drawn
CallRoundTrip ==
  Returned("roundTrip",
           getPosition(RectLeft + playheadLeft(playheadPosition(ev.time, ev.duration), ev.width),
                       ev.width, ev.duration).time)

\* the range handlePointerMove resolves for the DragSession ev.drag
CallDragRange ==
  Returned("dragRange", dragRange(ev.drag, ev.clientX, ev.width, ev.duration))

NextCalls ==
  \/ CallFindFrame
  \/ CallGetPosition
  \/ CallRoundTrip
  \/ CallDragRange

SpecCalls == InitCalls /\ [][NextCalls]_vars

(***************************************************************************)
(* ffmpegService (src/unnamed/part_001): the memoised FFmpeg object and    *)
(* the calls that use it                                                   *)
(***************************************************************************)
\* at most MaxCalls calls of the services are in flight
MaxCalls == 2
\* how many thumbnails a failing FFmpeg extraction may have made before it fails
MaxMadeBeforeFailure == 1

\* an FFmpeg object by its state: load() in flight, resolved, or rejected
Loading == [state |-> "loading"]
Loaded == [state |-> "loaded"]
Broken == [state |-> "broken"]

\* a call of a service that has not settled: `by` is who awaits it, `ff` the
\* FFmpeg object loadFFmpeg gave it (in the state the object is in now),
\* `owner` tells the call that ran new FFmpeg() and awaits its load()
ServiceCall(op, by, args) ==
  [op |-> op, by |-> by, args |-> args, ff |-> Null, owner |-> FALSE]

\* what a step of a service leaves behind for the claims: the call it was
\* about, how the call settled if it did ("pending" otherwise), its result,
\* the FFmpeg object it had, and the ff.exec runs of the step
ServiceEvent(type, call, outcome, result, exec) ==
  [type |-> type, op |-> call.op, by |-> call.by, args |-> call.args, ff |-> call.ff,
   outcome |-> outcome, result |-> result, exec |-> exec, memo |-> ffmpeg]

\* the call is settled: it is no longer among the calls in flight, `base`
settle(base, call, outcome, result, exec, urls) ==
  /\ calls' = base \ {call}
  /\ thumbnailUrls' = thumbnailUrls \cup urls
  /\ ev' = ServiceEvent("settled", call, outcome, result, exec)

\* the call awaits load() or the engine
await(base, call) ==
  /\ calls' = base \cup {call}
  /\ ev' = ServiceEvent("awaiting", call, "pending", Null, <<>>)
  /\ UNCHANGED thumbnailUrls

\* trimVideo, lines 239-245: the interval the engine is asked for
trimStart(start, end) == MathMax(0, MathMin(start, end))
trimLength(start, end) == MathMax(0, JsSub(MathMax(start, end), trimStart(start, end)))

\* extractFrames, lines 123 and 155-158
safeDurationOf(duration) == IF IsFinite(duration) /\ duration > 0 THEN duration ELSE 0
\* a frame count with no upper limit
framesTotalUncapped(safeDuration) == MathMax(10, (3 * safeDuration) \div 200)
framesTotal(safeDuration) == MathMin(30, MathMax(10, (3 * safeDuration) \div 200))
maxTimestamp(safeDuration) == MathMax(0, safeDuration - 1)

\* a loop that takes the thumbnails from the end of the media backwards
RECURSIVE framesLoopBackwards(_, _, _, _)
framesLoopBackwards(file, safeDuration, i, n) ==
  IF i >= n THEN <<>>
  ELSE <<[timestamp |-> MathMin(maxTimestamp(safeDuration),
                                ((n - 1 - i) * safeDuration) \div framesTotal(safeDuration)),
          url |-> [blob |-> file.name, index |-> i]]>>
       \o framesLoopBackwards(file, safeDuration, i + 1, n)

\* extractFrames, lines 180-224: the first `n` passes of the loop, from i on
RECURSIVE framesLoop(_, _, _, _)
framesLoop(file, safeDuration, i, n) ==
  IF i >= n THEN <<>>
  ELSE <<[timestamp |-> MathMin(maxTimestamp(safeDuration),
                                (i * safeDuration) \div framesTotal(safeDuration)),
          url |-> [blob |-> file.name, index |-> i]]>>
       \o framesLoop(file, safeDuration, i + 1, n)

\* the ff.exec runs that made `frames`
thumbRuns(frames) == [i \in 1..Len(frames) |-> [ss |-> frames[i].timestamp, frames |-> 1]]

\* a call that has its FFmpeg object goes on to its next await, or returns:
\* loadFFmpeg line 109, trimVideo lines 239-245, extractFrames lines 123-124
proceed(base, call) ==
  CASE call.op = "loadFFmpeg" ->
         settle(base, call, "resolved", call.ff, <<>>, {})
    [] call.op = "trimVideo" ->
         LET duration == trimLength(call.args.start, call.args.end)
         IN IF ~IsFinite(duration) \/ duration <= 0
              THEN settle(base, call, "resolved", Null, <<>>, {})
              ELSE await(base, call)
    [] call.op = "extractFrames" ->
         IF safeDurationOf(call.args.duration) = 0
           THEN settle(base, call, "resolved", <<>>, <<>>, {})
           ELSE await(base, call)

\* loadFFmpeg, lines 76-110, up to its first await: the memo if there is one,
\* or else a new FFmpeg whose load() the call awaits
loadFFmpeg(call) ==
  IF ffmpeg # Null
    THEN /\ proceed(calls, [call EXCEPT !.ff = ffmpeg])
         /\ UNCHANGED ffmpeg
    ELSE /\ ffmpeg' = Loading
         /\ await(calls, [call EXCEPT !.ff = Loading, !.owner = TRUE])

\* the FFmpeg objects held by the other calls follow the object that was loading
heldAfterLoad(call, state) ==
  {IF c.ff = Loading THEN [c EXCEPT !.ff = state] ELSE c : c \in calls \ {call}}

\* load() resolved (lines 97-100): `return ffmpeg` to the call that awaited it
loadResolved(call) ==
  /\ call.owner
  /\ call.ff = Loading
  /\ ffmpeg' = Loaded
  /\ proceed(heldAfterLoad(call, Loaded), [call EXCEPT !.ff = Loaded, !.owner = FALSE])

\* a catch that keeps the FFmpeg object whose load() rejected in the memo
loadRejectedKeepsMemo(call) ==
  /\ call.owner
  /\ call.ff = Loading
  /\ ffmpeg' = Broken
  /\ settle(heldAfterLoad(call, Broken), [call EXCEPT !.ff = Broken], "rejected", "error", <<>>, {})

\* load() or the fetch of its assets rejected (lines 101-105): the memo is
\* dropped and the error thrown to the call that awaited it
loadRejected(call) ==
  /\ call.owner
  /\ call.ff = Loading
  /\ ffmpeg' = Null
  /\ settle(heldAfterLoad(call, Broken), [call EXCEPT !.ff = Broken], "rejected", "error", <<>>, {})

\* the engine did what an awaiting call asked of it: trimVideo lines 271-289,
\* extractFrames lines 180-227
engineResolved(call) ==
  /\ call.op \in {"trimVideo", "extractFrames"}
  /\ ~call.owner
  /\ call.ff = Loaded
  /\ UNCHANGED ffmpeg
  /\ CASE call.op = "trimVideo" ->
            settle(calls, call, "resolved", [blob |-> call.args.file.name, type |-> "video/mp4"],
                   <<[ss |-> trimStart(call.args.start, call.args.end),
                      t |-> trimLength(call.args.start, call.args.end)]>>, {})
       [] call.op = "extractFrames" ->
            LET safeDuration == safeDurationOf(call.args.duration)
                frames == framesLoop(call.args.file, safeDuration, 0, framesTotal(safeDuration))
            IN settle(calls, call, "resolved", frames, thumbRuns(frames), urlsOf(frames))

\* the engine, or the FFmpeg object the call was given, failed it: ff.exec
\* threw or something before it did; the thumbnails made until then stay
\* allocated
engineRejected(call) ==
  /\ call.op \in {"trimVideo", "extractFrames"}
  /\ ~call.owner
  /\ call.ff # Null
  /\ UNCHANGED ffmpeg
  /\ CASE call.op = "trimVideo" ->
            \E ran \in (IF call.ff = Loaded THEN BOOLEAN ELSE {FALSE}) :
              settle(calls, call, "rejected", "error",
                     IF ran THEN <<[ss |-> trimStart(call.args.start, call.args.end),
                                    t |-> trimLength(call.args.start, call.args.end)]>>
                            ELSE <<>>, {})
       [] call.op = "extractFrames" ->
            \E n \in 0..(IF call.ff = Loaded THEN MaxMadeBeforeFailure ELSE 0) :
              LET frames == framesLoop(call.args.file, safeDurationOf(call.args.duration), 0, n)
              IN settle(calls, call, "rejected", "error", thumbRuns(frames), urlsOf(frames))

(***************************************************************************)
(* frameExtractService: the video+canvas path called on its own            *)
(***************************************************************************)
\* extractFramesWithVideo, lines 36-49: no thumbnails for a duration that is
\* not a positive number, or else the <video> of its own is awaited
extractFramesWithVideo(call) ==
  /\ IF IsFinite(call.args.duration) /\ call.args.duration > 0
       THEN await(calls, call)
       ELSE settle(calls, call, "resolved", <<>>, <<>>, {})
  /\ UNCHANGED ffmpeg

\* the loop of lines 66-86 ran to its end (lines 88-89)
videoResolved(call) ==
  /\ call.op = "extractFramesWithVideo"
  /\ LET frames == extractTimelineFrames(call.args.file, call.args.duration)
     IN settle(calls, call, "resolved", frames, <<>>, urlsOf(frames))
  /\ UNCHANGED ffmpeg

\* something in lines 48-86 threw: the thumbnails made until then are revoked
\* (lines 90-92)
videoRejected(call) ==
  /\ call.op = "extractFramesWithVideo"
  /\ settle(calls, call, "rejected", "error", <<>>, {})
  /\ UNCHANGED ffmpeg

(***************************************************************************)
(* Session (App.tsx): export and analysis                                  *)
(***************************************************************************)
\* the step settles the call that handler `by` awaits
settledFor(by) == ev'.type = "settled" /\ ev'.by = by

\* handlers whose finally leaves the busy flags as they are
continuationStaysBusy ==
  /\ UNCHANGED <<isExporting, isAnalyzing>>
  /\ aiAnalysis' = IF settledFor("handleAnalyze") /\ ev'.outcome = "resolved"
                     THEN ev'.result ELSE aiAnalysis
  /\ video' = IF ~settledFor("processFrames") THEN video
              ELSE IF ev'.outcome = "resolved"
                     THEN [video EXCEPT !.frames = ev'.result]
                     ELSE video
  /\ extractProgress' = IF settledFor("processFrames") /\ ev'.outcome = "resolved"
                          THEN 100 ELSE extractProgress

\* what the handler that awaited the call the step settled does next:
\* handleExport lines 204-210, handleAnalyze lines 173-181, processFrames
\* lines 118-123
continuation ==
  /\ isExporting' = IF settledFor("handleExport") THEN FALSE ELSE isExporting
  /\ isAnalyzing' = IF settledFor("handleAnalyze") THEN FALSE ELSE isAnalyzing
  /\ aiAnalysis' = IF settledFor("handleAnalyze") /\ ev'.outcome = "resolved"
                     THEN ev'.result ELSE aiAnalysis
  /\ video' = IF ~settledFor("processFrames") THEN video
              ELSE IF ev'.outcome = "resolved"
                     THEN [video EXCEPT !.frames = ev'.result, !.isProcessing = FALSE]
                     ELSE [video EXCEPT !.isProcessing = FALSE]
  /\ extractProgress' = IF settledFor("processFrames") /\ ev'.outcome = "resolved"
                          THEN 100 ELSE extractProgress

\* what the services and the handlers that await them leave alone
mediaVars == <<trimRange, videoEl, pending>>

\* an Export button with no pipeline behind it
handleExportUiOnly ==
  /\ ev' = NoEvent("export")
  /\ UNCHANGED <<isExporting, isAnalyzing, aiAnalysis, ffmpeg, calls, thumbnailUrls>>

\* handleExport(), up to its first await that does not resolve at once; the
\* call of trimVideo carries the trimRange it was made for along with its
\* arguments
handleExport ==
  LET safeStart == MathMax(0, MathMin(trimRange.start, trimRange.end))
      safeEnd == MathMax(trimRange.start, trimRange.end)
      returnsEarly == IF video.file = Null \/ trimRange = Null THEN TRUE
                      ELSE JsLe(safeEnd, safeStart)
  IN IF returnsEarly
       THEN /\ ev' = NoEvent("export")
            /\ UNCHANGED <<isExporting, isAnalyzing, aiAnalysis, ffmpeg, calls, thumbnailUrls>>
       ELSE /\ loadFFmpeg(ServiceCall("trimVideo", "handleExport",
                                      [file |-> video.file, start |-> safeStart, end |-> safeEnd,
                                       range |-> trimRange]))
            /\ isExporting' = ~settledFor("handleExport")
            /\ UNCHANGED <<isAnalyzing, aiAnalysis>>

canExport ==
  /\ video.file # Null
  /\ trimRange # Null
  /\ JsGt(trimRange.end, trimRange.start)
  /\ ~video.isProcessing

\* handleAnalyze(), up to its await
handleAnalyze ==
  IF video.frames = <<>>
    THEN /\ ev' = NoEvent("analyze")
         /\ UNCHANGED <<isExporting, isAnalyzing, aiAnalysis, ffmpeg, calls, thumbnailUrls>>
    ELSE /\ isAnalyzing' = TRUE
         /\ await(calls, ServiceCall("analyzeVideoFrames", "handleAnalyze",
                                     [frames |-> [i \in 1..Len(video.frames) |-> video.frames[i].url]]))
         /\ UNCHANGED <<isExporting, aiAnalysis, ffmpeg>>

\* analyzeVideoFrames (src/unnamed/part_000) resolved with the parsed answer
analysisResolved(call) ==
  /\ call.op = "analyzeVideoFrames"
  /\ settle(calls, call, "resolved",
            [summary |-> call.args.frames[1].blob, highlights |-> <<>>], <<>>, {})
  /\ UNCHANGED ffmpeg

\* a fetch of a thumbnail, the request or JSON.parse threw
analysisRejected(call) ==
  /\ call.op = "analyzeVideoFrames"
  /\ settle(calls, call, "rejected", "error", <<>>, {})
  /\ UNCHANGED ffmpeg

(***************************************************************************)
(* The environment of the services                                         *)
(***************************************************************************)
\* the Export button, enabled
Export ==
  /\ canExport
  /\ ~isExporting
  /\ handleExport
  /\ UNCHANGED <<video, extractProgress, mediaVars, timelineVars, browserVars, imports>>

\* the analysis button, enabled
Analyze ==
  /\ video.frames # <<>>
  /\ ~isAnalyzing
  /\ handleAnalyze
  /\ UNCHANGED <<video, extractProgress, mediaVars, timelineVars, browserVars, imports>>

LoadResolves ==
  /\ \E call \in calls : loadResolved(call)
  /\ continuation
  /\ UNCHANGED <<mediaVars, timelineVars, browserVars, imports>>

LoadRejects ==
  /\ \E call \in calls : loadRejected(call)
  /\ continuation
  /\ UNCHANGED <<mediaVars, timelineVars, browserVars, imports>>

EngineResolves ==
  /\ \E call \in calls : engineResolved(call)
  /\ continuation
  /\ UNCHANGED <<mediaVars, timelineVars, browserVars, imports>>

EngineRejects ==
  /\ \E call \in calls : engineRejected(call)
  /\ continuation
  /\ UNCHANGED <<mediaVars, timelineVars, browserVars, imports>>

AnalysisResolves ==
  /\ \E call \in calls : analysisResolved(call)
  /\ continuation
  /\ UNCHANGED <<mediaVars, timelineVars, browserVars, imports>>

VideoResolves ==
  /\ \E call \in calls : videoResolved(call)
  /\ continuation
  /\ UNCHANGED <<mediaVars, timelineVars, browserVars, imports>>

VideoRejects ==
  /\ \E call \in calls : videoRejected(call)
  /\ continuation
  /\ UNCHANGED <<mediaVars, timelineVars, browserVars, imports>>

AnalysisRejects ==
  /\ \E call \in calls : analysisRejected(call)
  /\ continuation
  /\ UNCHANGED <<mediaVars, timelineVars, browserVars, imports>>

\* the video+canvas path of an extraction in flight threw, and
\* extractTimelineFrames goes on with the FFmpeg path (frameExtractService.ts
\* lines 107-109)
FramesFallBack ==
  /\ \E job \in pending :
       /\ pending' = pending \ {job}
       /\ loadFFmpeg(ServiceCall("extractFrames", "processFrames", job))
  /\ continuation
  /\ UNCHANGED <<trimRange, videoEl, timelineVars, browserVars, imports>>

\* The services called on their own, by a caller of trimVideo and
\* extractFrames and by another of loadFFmpeg, each with one call in flight
\* at most.
CallFile == [name |-> "a.mp4", type |-> "video/mp4", duration |-> 100]
TrimTimes == {NaN, Infinity, 0 - 50, 0, 200}
ExtractDurations == {NaN, Infinity, NegInfinity, 0 - 100, 0, 1, 5, 100, 1000, 2000, 3000}

DirectCalls ==
  {ServiceCall("loadFFmpeg", "other", <<>>)}
  \cup {ServiceCall("trimVideo", "caller", [file |-> CallFile, start |-> s, end |-> e]) :
          s \in TrimTimes, e \in TrimTimes}
  \cup {ServiceCall(op, "caller", [file |-> CallFile, duration |-> d]) :
          op \in {"extractFrames", "extractFramesWithVideo"}, d \in ExtractDurations}

CallService ==
  /\ Cardinality(calls) < MaxCalls
  /\ \E call \in DirectCalls :
       /\ \A c \in calls : c.by # call.by
       /\ IF call.op = "extractFramesWithVideo"
            THEN extractFramesWithVideo(call)
            ELSE loadFFmpeg(call)
  /\ continuation
  /\ UNCHANGED <<mediaVars, timelineVars, browserVars, imports>>

NextService ==
  \/ CallService
  \/ LoadResolves
  \/ LoadRejects
  \/ EngineResolves
  \/ EngineRejects
  \/ VideoResolves
  \/ VideoRejects

SpecService == Init /\ [][NextService]_vars

\* The session without the Timeline: at most MaxImports files are chosen, the
\* media is loaded and reset, its thumbnails are extracted by the video+canvas
\* path or by the FFmpeg path after it, the sequence is analysed and exported;
\* every awaited call may fail.
NextSession ==
  \/ ImportSome
  \/ LoadedMetadata
  \/ Reset
  \/ FramesExtracted
  \/ FramesFallBack
  \/ Analyze
  \/ AnalysisResolves
  \/ AnalysisRejects
  \/ Export
  \/ LoadResolves
  \/ LoadRejects
  \/ EngineResolves
  \/ EngineRejects

SpecSession == Init /\ [][NextSession]_vars

\* nothing the session awaits is in flight
Quiet == pending = {} /\ calls = {}

\* A touch pointer that trims, at most MaxImports files chosen at any time,
\* in the middle of a gesture too, their thumbnails extracted by the
\* video+canvas path, and the Export button; the user waits for the
\* thumbnails and for an export before doing anything else.
NextExport ==
  \/ Quiet /\ TouchDown
  \/ Quiet /\ TouchMove
  \/ Quiet /\ PointerUp
  \/ Quiet /\ ImportSome
  \/ LoadedMetadata
  \/ FramesExtracted
  \/ Export
  \/ LoadResolves
  \/ LoadRejects
  \/ EngineResolves
  \/ EngineRejects

SpecExport == Init /\ [][NextExport]_vars

(***************************************************************************)
(* extractTimelineFrames step by step: the progress it reports             *)
(***************************************************************************)
\* a progress value p = num / den, kept exact; den is above 0
Progress(num, den) == [num |-> num, den |-> den]

\* Math.min(1, Math.max(0, p))
clampProgress(p) ==
  IF p.num < 0 THEN Progress(0, 1)
  ELSE IF p.num > p.den THEN Progress(1, 1)
  ELSE p

\* p < q
progressBelow(p, q) == p.num * q.den < q.num * p.den

\* Math.floor(p * 100)
percentOf(p) == (100 * p.num) \div p.den

\* (i + ratio) / totalFrames for the ratios an ff.exec run reports: 0, 1/2, 1,
\* in halves
HalfRatios == {0, 1, 2}

\* extractTimelineFrames(file, duration, onProgress) in flight for
\* processFrames: `path` is where it is ("video": the loop of
\* extractFramesWithVideo; "load": extractFrames awaiting loadFFmpeg;
\* "prepare": extractFrames before its reportProgress(0); "ffmpeg": its
\* loop), `made` the thumbnails made on that path, lastProgress the variable
\* of extractFrames, `delivered` the last value handed to onProgress (Null:
\* none yet)
Extraction(job) ==
  [op |-> "extractTimelineFrames", by |-> "processFrames", args |-> job,
   ff |-> Null, owner |-> FALSE, path |-> "video", made |-> 0,
   lastProgress |-> Progress(0, 1), delivered |-> Null]

\* what a step of an extraction leaves behind for the claims: `p` the value
\* handed to onProgress in the step (Null: none), `delivered` the last one
\* handed to it before the step
ExtractionEvent(type, call, outcome, result, p) ==
  [type |-> type, op |-> call.op, by |-> call.by, args |-> call.args, ff |-> call.ff,
   outcome |-> outcome, result |-> result, exec |-> <<>>, memo |-> ffmpeg,
   path |-> call.path, p |-> p, delivered |-> call.delivered]

\* the frames extractFrames has pushed after `made` passes of its loop
madeByEngine(call) ==
  framesLoop(call.args.file, safeDurationOf(call.args.duration), 0, call.made)

\* what the steps of an extraction leave alone
extractionFrame ==
  <<trimRange, aiAnalysis, isExporting, isAnalyzing, videoEl, timelineVars,
    browserVars, imports>>

\* onProgress(p), the callback of processFrames; the extraction goes on as `next`
onProgress(call, next, p) ==
  /\ extractProgress' = percentOf(p)
  /\ calls' = (calls \ {call}) \cup {[next EXCEPT !.delivered = p]}
  /\ ev' = ExtractionEvent("progress", call, "pending", Null, p)

\* reportProgress(p) of extractFrames
reportProgress(call, next, p) ==
  LET clamped == clampProgress(p)
  IN IF progressBelow(clamped, call.lastProgress)
       THEN /\ calls' = (calls \ {call}) \cup {next}
            /\ ev' = ExtractionEvent("progress-dropped", call, "pending", Null, Null)
            /\ UNCHANGED extractProgress
       ELSE onProgress(call, [next EXCEPT !.lastProgress = clamped], clamped)

\* processFrames after its await: extractTimelineFrames resolved with `frames`
extractionResolved(call, frames) ==
  /\ calls' = calls \ {call}
  /\ video' = [video EXCEPT !.frames = frames, !.isProcessing = FALSE]
  /\ thumbnailUrls' = thumbnailUrls \cup urlsOf(frames)
  /\ ev' = ExtractionEvent("settled", call, "resolved", frames, Null)
  /\ UNCHANGED extractProgress

\* processFrames after its await: extractTimelineFrames rejected; the
\* thumbnails extractFrames had made are not released
extractionRejected(call, made) ==
  /\ calls' = calls \ {call}
  /\ video' = [video EXCEPT !.isProcessing = FALSE]
  /\ thumbnailUrls' = thumbnailUrls \cup urlsOf(made)
  /\ ev' = ExtractionEvent("settled", call, "rejected", "error", Null)
  /\ UNCHANGED extractProgress

\* extractFramesWithVideo up to its loop
extractionStarts(job) ==
  /\ pending' = pending \ {job}
  /\ IF safeDurationOf(job.duration) = 0
       THEN extractionResolved(Extraction(job), <<>>)
       ELSE /\ calls' = calls \cup {Extraction(job)}
            /\ ev' = ExtractionEvent("awaiting", Extraction(job), "pending", Null, Null)
            /\ UNCHANGED <<video, extractProgress, thumbnailUrls>>
  /\ UNCHANGED <<ffmpeg, extractionFrame>>

\* the frame count of the extraction
framesOfCall(call) == framesTotal(safeDurationOf(call.args.duration))

\* one pass of the loop of extractFramesWithVideo
videoFrame(call) ==
  /\ call.op = "extractTimelineFrames"
  /\ call.path = "video"
  /\ call.made < framesOfCall(call)
  /\ onProgress(call, [call EXCEPT !.made = @ + 1], Progress(call.made + 1, framesOfCall(call)))
  /\ UNCHANGED <<video, thumbnailUrls, ffmpeg, pending, extractionFrame>>

\* extractFramesWithVideo returns its frames
videoDone(call) ==
  /\ call.op = "extractTimelineFrames"
  /\ call.path = "video"
  /\ call.made = framesOfCall(call)
  /\ extractionResolved(call, extractTimelineFrames(call.args.file, call.args.duration))
  /\ UNCHANGED <<ffmpeg, pending, extractionFrame>>

\* extractFramesWithVideo throws (metadata, a seek, the canvas): the catch of
\* extractTimelineFrames calls extractFrames with the same onProgress, which
\* awaits loadFFmpeg
videoFailed(call) ==
  /\ call.op = "extractTimelineFrames"
  /\ call.path = "video"
  /\ IF ffmpeg # Null
       THEN /\ calls' = (calls \ {call}) \cup {[call EXCEPT !.path = "prepare", !.ff = ffmpeg]}
            /\ UNCHANGED ffmpeg
       ELSE /\ ffmpeg' = Loading
            /\ calls' = (calls \ {call})
                          \cup {[call EXCEPT !.path = "load", !.ff = Loading, !.owner = TRUE]}
  /\ ev' = ExtractionEvent("fallback", call, "pending", Null, Null)
  /\ UNCHANGED <<video, extractProgress, thumbnailUrls, pending, extractionFrame>>

\* ffmpeg.load() of the fallback resolves
fallbackLoaded(call) ==
  /\ call.op = "extractTimelineFrames"
  /\ call.path = "load"
  /\ ffmpeg' = Loaded
  /\ calls' = (calls \ {call})
                \cup {[call EXCEPT !.path = "prepare", !.ff = Loaded, !.owner = FALSE]}
  /\ ev' = ExtractionEvent("loaded", call, "pending", Null, Null)
  /\ UNCHANGED <<video, extractProgress, thumbnailUrls, pending, extractionFrame>>

\* ffmpeg.load() of the fallback rejects: loadFFmpeg empties the memo and rethrows
fallbackLoadFailed(call) ==
  /\ call.op = "extractTimelineFrames"
  /\ call.path = "load"
  /\ ffmpeg' = Null
  /\ extractionRejected([call EXCEPT !.ff = Broken], <<>>)
  /\ UNCHANGED <<pending, extractionFrame>>

\* extractFrames has mounted its input and calls reportProgress(0)
fallbackPrepared(call) ==
  /\ call.op = "extractTimelineFrames"
  /\ call.path = "prepare"
  /\ call.ff = Loaded
  /\ reportProgress([call EXCEPT !.lastProgress = Progress(0, 1)],
                    [call EXCEPT !.path = "ffmpeg", !.made = 0, !.lastProgress = Progress(0, 1)],
                    Progress(0, 1))
  /\ UNCHANGED <<video, thumbnailUrls, ffmpeg, pending, extractionFrame>>

\* the progress event of an ff.exec run: reportProgress((i + ratio) / totalFrames)
engineProgress(call, halves) ==
  /\ call.op = "extractTimelineFrames"
  /\ call.path = "ffmpeg"
  /\ call.made < framesOfCall(call)
  /\ reportProgress(call, call, Progress(2 * call.made + halves, 2 * framesOfCall(call)))
  /\ UNCHANGED <<video, thumbnailUrls, ffmpeg, pending, extractionFrame>>

\* one pass of the loop of extractFrames: reportProgress((i + 1) / totalFrames)
engineFrame(call) ==
  /\ call.op = "extractTimelineFrames"
  /\ call.path = "ffmpeg"
  /\ call.made < framesOfCall(call)
  /\ reportProgress(call, [call EXCEPT !.made = @ + 1],
                    Progress(call.made + 1, framesOfCall(call)))
  /\ UNCHANGED <<video, thumbnailUrls, ffmpeg, pending, extractionFrame>>

\* extractFrames returns its frames
engineDone(call) ==
  /\ call.op = "extractTimelineFrames"
  /\ call.path = "ffmpeg"
  /\ call.made = framesOfCall(call)
  /\ extractionResolved(call, madeByEngine(call))
  /\ UNCHANGED <<ffmpeg, pending, extractionFrame>>

\* extractFrames throws: its preparation, or a pass of its loop
engineFailed(call) ==
  /\ call.op = "extractTimelineFrames"
  /\ call.path \in {"prepare", "ffmpeg"}
  /\ call.path = "ffmpeg" => call.made < framesOfCall(call)
  /\ extractionRejected(call, IF call.path = "ffmpeg" THEN madeByEngine(call) ELSE <<>>)
  /\ UNCHANGED <<ffmpeg, pending, extractionFrame>>

ExtractionStarts == \E job \in pending : extractionStarts(job)
VideoFrame == \E call \in calls : videoFrame(call)
VideoDone == \E call \in calls : videoDone(call)
VideoFailed == \E call \in calls : videoFailed(call)
FallbackLoaded == \E call \in calls : fallbackLoaded(call)
FallbackLoadFailed == \E call \in calls : fallbackLoadFailed(call)
FallbackPrepared == \E call \in calls : fallbackPrepared(call)
EngineProgress == \E call \in calls : \E halves \in HalfRatios : engineProgress(call, halves)
EngineFrame == \E call \in calls : engineFrame(call)
EngineDone == \E call \in calls : engineDone(call)
EngineFailed == \E call \in calls : engineFailed(call)

\* At most MaxImports files, one after the other has settled, each extracted
\* step by step: by the video+canvas path, or by the FFmpeg path from where
\* the other gave up.
NextProgress ==
  \/ Quiet /\ ImportSome
  \/ LoadedMetadata
  \/ ExtractionStarts
  \/ VideoFrame
  \/ VideoDone
  \/ VideoFailed
  \/ FallbackLoaded
  \/ FallbackLoadFailed
  \/ FallbackPrepared
  \/ EngineProgress
  \/ EngineFrame
  \/ EngineDone
  \/ EngineFailed

SpecProgress == Init /\ [][NextProgress]_vars

(***************************************************************************)
(* The contract of the Timeline & Trim Controller, in its own terms         *)
(***************************************************************************)
\* minSpan = min(0.5, duration)
minSpan(duration) == IF duration < HalfSecond THEN duration ELSE HalfSecond

\* clamp(v, lo, hi) on finite numbers: v raised to lo, then lowered to hi
confined(v, lo, hi) ==
  LET raised == IF v < lo THEN lo ELSE v
  IN IF raised > hi THEN hi ELSE raised

\* the time under the pointer: clamp(x, 0, W) / W * duration, for W > 0
mappedTime(clientX) ==
  LET x == clientX - RectLeft
      within == IF x < 0 THEN 0 ELSE IF x > rectWidth THEN rectWidth ELSE x
  IN (within * video.duration) \div rectWidth

\* 0 <= start <= end <= duration and end - start >= minSpan
validRange(range, duration) ==
  /\ 0 <= range.start
  /\ range.start <= range.end
  /\ range.end <= duration
  /\ range.end - range.start >= minSpan(duration)

\* the last handler was a pointer-move that resolved a drag in `mode`
movedIn(mode) ==
  /\ ev.type = "move"
  /\ video.duration # 0
  /\ trimDrag # Null
  /\ trimDrag.mode = mode

\* C1: in every reachable state the session's trimRange is null or has
\* 0 <= start <= end <= duration and end - start >= min(0.5, duration), and
\* so has every range the Timeline passes to onTrimRangeChange.
C1_TrimRangeInvariant ==
  /\ trimRange = Null \/ validRange(trimRange, video.duration)
  /\ \A i \in DOMAIN ev.trims : validRange(ev.trims[i], video.duration)

\* C2: a pointer-move in Move mode emits start = clamp(originRange.start +
\* deltaTime, 0, duration - span) and end = start + span, with span =
\* originRange.end - originRange.start and deltaTime = (clientX -
\* pointerOriginX) / axisWidth * duration.
C2_MoveFormula ==
  movedIn("move") =>
    LET origin == trimDrag.startRange
        span == origin.end - origin.start
        deltaTime == ((ev.clientX - trimDrag.startX) * video.duration) \div rectWidth
        start == confined(origin.start + deltaTime, 0, video.duration - span)
    IN ev.trims = <<[start |-> start, end |-> start + span]>>

\* C3: a pointer-move in AdjustStart mode emits start = clamp(mappedTime, 0,
\* originRange.end - minSpan), mappedTime being the time under the pointer,
\* and end = originRange.end; with originRange {2, 5}, duration 10 and mapped
\* time 4.8 (an axis 25 px wide, the pointer 12 px in) the start is 4.5.
C3_AdjustStartFormula ==
  /\ movedIn("start") =>
       LET origin == trimDrag.startRange
           start == confined(mappedTime(ev.clientX), 0, origin.end - minSpan(video.duration))
       IN ev.trims = <<[start |-> start, end |-> origin.end]>>
  /\ LET drag == [mode |-> "start", startX |-> RectLeft + 5,
                  startRange |-> [start |-> 200, end |-> 500]]
     IN /\ getPosition(RectLeft + 12, 25, 1000).time = 480
        /\ dragRange(drag, RectLeft + 12, 25, 1000) = [start |-> 450, end |-> 500]

\* a start-handle drag whose pointer is past originRange.end - minSpan
C3_StartHeldBack ==
  /\ movedIn("start")
  /\ mappedTime(ev.clientX) > trimDrag.startRange.end - minSpan(video.duration)
  /\ ev.trims[1].start = trimDrag.startRange.end - minSpan(video.duration)
  /\ trimRange = ev.trims[1]

\* C4: a pointer-move in AdjustEnd mode emits end = clamp(mappedTime,
\* originRange.start + minSpan, duration) and start = originRange.start.
C4_AdjustEndFormula ==
  movedIn("end") =>
    LET origin == trimDrag.startRange
        end == confined(mappedTime(ev.clientX), origin.start + minSpan(video.duration),
                        video.duration)
    IN ev.trims = <<[start |-> origin.start, end |-> end]>>

\* an end-handle drag whose pointer is before originRange.start + minSpan
C4_EndHeldBack ==
  /\ movedIn("end")
  /\ mappedTime(ev.clientX) < trimDrag.startRange.start + minSpan(video.duration)
  /\ ev.trims[1].end = trimDrag.startRange.start + minSpan(video.duration)
  /\ trimRange = ev.trims[1]

\* the mode that belongs to a trim target
matchingMode(role) ==
  CASE role = "trim-range" -> "move"
    [] role = "trim-handle-start" -> "start"
    [] role = "trim-handle-end" -> "end"

\* the last handler was a pointer-down on a trim target with a range present
downOnTrimTarget ==
  /\ ev.type = "down"
  /\ ev.role \in {"trim-range", "trim-handle-start", "trim-handle-end"}
  /\ trimRange # Null

\* C5: a pointer-down on a trim target while a trim range is present enters
\* the matching mode, captures the pointer and snapshots pointerOriginX =
\* clientX and originRange = the current TimeRange; it does not enter
\* scrubbing mode and issues no seek.
C5_TrimTargetEntersMode ==
  downOnTrimTarget =>
    /\ trimDrag = [mode |-> matchingMode(ev.role), startX |-> ev.clientX,
                   startRange |-> trimRange]
    /\ captured
    /\ ~isScrubbing
    /\ ev.seeks = <<>>

\* a pointer-down on the end handle of a range that an earlier drag narrowed
C5_DownOnEndHandle ==
  /\ downOnTrimTarget
  /\ ev.role = "trim-handle-end"
  /\ trimDrag # Null
  /\ trimDrag.mode = "end"
  /\ trimDrag.startRange.end < video.duration

C8_CancelClearsAll ==
  [][ ev'.type = "cancel" =>
        /\ trimDrag' = Null
        /\ ~isScrubbing'
        /\ ~captured'
        /\ hoverInfo' = Null
        /\ ev'.seeks = <<>>
        /\ ev'.trims = <<>>
        /\ trimRange' = trimRange
    ]_vars

\* a pointer-cancel that ended a drag of the range body which had moved the range
C8_CancelledMidDrag ==
  /\ ev.type = "cancel"
  /\ ev.during = "move"
  /\ trimRange # Null
  /\ trimRange.start > 0
  /\ hoverInfo = Null

\* C9: when the axis loses the pointer's capture during a gesture and no
\* pointer-up or pointer-cancel was delivered, the DragSession is cleared and
\* scrubbing mode is off, and a later pointer-move emits neither a
\* trimRangeChanged nor a seek.
C9_CaptureLossCancels ==
  /\ ev.type = "lostpointercapture" => (trimDrag = Null /\ ~isScrubbing)
  /\ (ev.type = "move" /\ ~captured) => (ev.seeks = <<>> /\ ev.trims = <<>>)

\* a time or a range without NaN
definedTime(time) == time # NaN
definedRange(range) == definedTime(range.start) /\ definedTime(range.end)

\* C10: with duration 0 or an axis of width 0, pointer-down and pointer-move
\* issue no seek and emit no trimRangeChanged, and no NaN time or range is
\* ever produced: not in a seek, not in an emitted range, not in HoverState,
\* not in the session's TimeRange or playback position.
C10_DegenerateAxisIsNoOp ==
  /\ (ev.type \in {"down", "move"} /\ (video.duration = 0 \/ rectWidth = 0)) =>
       (ev.seeks = <<>> /\ ev.trims = <<>>)
  /\ \A i \in DOMAIN ev.seeks : definedTime(ev.seeks[i])
  /\ \A i \in DOMAIN ev.trims : definedRange(ev.trims[i])
  /\ hoverInfo # Null => definedTime(hoverInfo.time)
  /\ trimRange # Null => definedRange(trimRange)
  /\ definedTime(video.currentTime)

\* C11: for any sequence of pointer events, overlapping gestures included, at
\* most one gesture mode is active: scrubbing mode and a trim DragSession are
\* never active at the same time.  (trimDrag holds one DragSession at most.)
C11_OneGestureMode ==
  ~(isScrubbing /\ trimDrag # Null)

\* the range a DragSession yields for a pointer at clientX on an axis `width`
\* wide over `duration`: nothing else enters
resolved(session, clientX, width, duration) ==
  LET origin == session.startRange
      span == origin.end - origin.start
      under == LET x == clientX - RectLeft
               IN ((IF x < 0 THEN 0 ELSE IF x > width THEN width ELSE x) * duration) \div width
      deltaTime == ((clientX - session.startX) * duration) \div width
      limit == IF duration - span < 0 THEN 0 ELSE duration - span
      moved == confined(origin.start + deltaTime, 0, limit)
  IN CASE session.mode = "move" -> [start |-> moved, end |-> moved + span]
       [] session.mode = "start" ->
            [start |-> confined(under, 0, origin.end - minSpan(duration)), end |-> origin.end]
       [] session.mode = "end" ->
            [start |-> origin.start,
             end |-> confined(under, origin.start + minSpan(duration), duration)]

\* C12: the range a pointer-move emits during a trim drag is a function of the
\* DragSession snapshot (mode, pointerOriginX, originRange), the pointer
\* position, the axis width and the duration alone: whatever range was emitted
\* or stored before, the same pointer-move emits the same range.
C12_EmittedRangeIsFunctionOfSnapshot ==
  (ev.type = "move" /\ trimDrag # Null /\ video.duration # 0) =>
    ev.trims = <<resolved(trimDrag, ev.clientX, rectWidth, video.duration)>>

\* a move resolved after the stored range had left the snapshot behind
C12_MovedAwayFromSnapshot ==
  /\ movedIn("move")
  /\ ev.during = "move"
  /\ ev.trims = <<trimRange>>
  /\ trimRange # trimDrag.startRange

\* C13: every pointer-move while a DragSession is active emits exactly one
\* trimRangeChanged carrying a full {start, end} pair, and the session's
\* TimeRange is then exactly that pair.
C13_EveryDragMoveReplacesRange ==
  (ev.type = "move" /\ ev.during \in {"move", "start", "end"}) =>
    /\ Len(ev.trims) = 1
    /\ DOMAIN ev.trims[1] = {"start", "end"}
    /\ trimRange = ev.trims[1]

\* the last handler was a pointer-down taken while no TimeRange was held
downWithoutRange ==
  /\ ev.type = "down"
  /\ ev.during = "idle"
  /\ trimRange = Null

\* C16 as stated: when trimRange is null, a pointer-down anywhere on the axis
\* enters scrubbing mode, issues a seek to the mapped time and creates no
\* DragSession.
C16_NullRangeDownScrubs ==
  downWithoutRange =>
    /\ isScrubbing
    /\ Len(ev.seeks) = 1
    /\ trimDrag = Null

\* C16, amended: when trimRange is null and duration is not 0 (a file imported
\* over loaded media, before its metadata loads), a pointer-down anywhere on
\* the axis enters scrubbing mode, issues a seek to the mapped time and
\* creates no DragSession; when duration is 0 the pointer-down does nothing.
C16_NullRangeDownScrubsWithDuration ==
  /\ (downWithoutRange /\ video.duration # 0) =>
       /\ isScrubbing
       /\ captured
       /\ ev.seeks = <<mappedTime(ev.clientX)>>
       /\ trimDrag = Null
  /\ (downWithoutRange /\ video.duration = 0) =>
       /\ ~isScrubbing
       /\ ~captured
       /\ ev.seeks = <<>>
       /\ trimDrag = Null

\* a press on the axis while the second file's metadata is awaited
C16_ScrubbedBeforeMetadata ==
  /\ downWithoutRange
  /\ video.duration # 0
  /\ video.file # Null
  /\ isScrubbing
  /\ ev.seeks # <<>>

\* C20: the hover preview is purely observational: a handler that only
\* updates, keeps or clears HoverState (a pointer-move outside any gesture, a
\* pointer leaving the axis) issues no seek, emits no trimRangeChanged and
\* leaves currentTime, isPlaying, the TimeRange, the DragSession, scrubbing
\* mode and the playback element unchanged.
C20_HoverIsObservational ==
  [][(\/ ev'.type = "leave"
      \/ ev'.type = "move" /\ ev'.during = "idle") =>
       /\ ev'.seeks = <<>>
       /\ ev'.trims = <<>>
       /\ video' = video
       /\ videoEl' = videoEl
       /\ trimRange' = trimRange
       /\ trimDrag' = trimDrag
       /\ isScrubbing' = isScrubbing]_vars

\* the preview shows a time away from the playhead, which stayed where it was
C20_HoveredAwayFromPlayhead ==
  /\ ev.type = "move"
  /\ ev.during = "idle"
  /\ hoverInfo # Null
  /\ trimRange # Null
  /\ hoverInfo.time # video.currentTime
  /\ videoEl.currentTime = video.currentTime

\* |timestamp - time| of the i-th thumbnail
distance(frames, i, time) ==
  IF frames[i].timestamp < time THEN time - frames[i].timestamp
  ELSE frames[i].timestamp - time

\* C17: for every time and every thumbnail sequence the nearest-frame lookup
\* returns a thumbnail whose |timestamp - time| is minimal over the sequence,
\* the first such in sequence order; for an empty sequence it returns
\* nothing; with timestamps [0, 2, 4, 6] and time 3 it returns the frame at 2.
C17_FindFrameNearestFirst ==
  /\ (ev.type = "findFrame" /\ ev.done) =>
       IF Len(ev.frames) = 0 THEN ev.result = Null
       ELSE \E i \in 1..Len(ev.frames) :
              /\ ev.result = ev.frames[i]
              /\ \A j \in 1..Len(ev.frames) :
                   distance(ev.frames, i, ev.time) <= distance(ev.frames, j, ev.time)
              /\ \A j \in 1..(i - 1) :
                   distance(ev.frames, j, ev.time) > distance(ev.frames, i, ev.time)
  /\ findFrame(framesOf(<<0, 200, 400, 600>>), 300) = framesOf(<<0, 200, 400, 600>>)[2]

\* the lookup of time 3 among [0, 2, 4, 6] has returned the frame at 2
C17_TieResolvedToFirst ==
  /\ ev.type = "findFrame"
  /\ ev.done
  /\ ev.frames = framesOf(<<0, 200, 400, 600>>)
  /\ ev.time = 300
  /\ ev.result.timestamp = 200

\* C18: for duration > 0 and width W > 0 the mapped time of pixel offset x is
\* clamp(x, 0, W) / W * duration, which lies in [0, duration]; and for every
\* time in [0, duration], time -> percent (time / duration * 100) -> pixel
\* (percent / 100 * W) -> time gives the time back.
C18_CoordinateMapping ==
  /\ (ev.type = "getPosition" /\ ev.done) =>
       LET x == ev.clientX - RectLeft
       IN /\ ev.result.x = x
          /\ ev.result.time = (confined(x, 0, ev.width) * ev.duration) \div ev.width
          /\ 0 <= ev.result.time
          /\ ev.result.time <= ev.duration
  /\ (ev.type = "roundTrip" /\ ev.done) => ev.result = ev.time

\* a time inside the media has made the way to the axis and back
C18_WentRoundInside ==
  /\ ev.type = "roundTrip"
  /\ ev.done
  /\ ev.width = 25
  /\ 0 < ev.time
  /\ ev.time < ev.duration
  /\ ev.result = ev.time

\* a Move drag of originRange {2, 5} over duration 10 has been resolved for
\* the pointer deltaTime away from where it went down
movedExampleBy(deltaTime) ==
  /\ ev.type = "dragRange"
  /\ ev.done
  /\ ev.drag.mode = "move"
  /\ ev.drag.startRange = [start |-> 200, end |-> 500]
  /\ ev.duration = 1000
  /\ ((ev.clientX - ev.drag.startX) * ev.duration) \div ev.width = deltaTime

C14_PositionInsideRange ==
  (trimRange # Null /\ (ev.trims # <<>> \/ ev.seeks # <<>>)) =>
    /\ videoEl # Null
    /\ trimRange.start <= videoEl.currentTime
    /\ videoEl.currentTime <= trimRange.end
    /\ trimRange.start <= video.currentTime
    /\ video.currentTime <= trimRange.end

\* C15: when a trim change made during playback leaves the playback position
\* outside the new range, the session re-clamps the position into the range
\* and pauses playback (isPlaying becomes false).
C15_TrimDuringPlaybackPauses ==
  [][(/\ ev'.type = "move"
      /\ ev'.trims # <<>>
      /\ trimRange' # Null
      /\ videoEl # Null
      /\ video.isPlaying
      /\ ~videoEl.paused
      /\ \/ videoEl.currentTime < trimRange'.start
         \/ videoEl.currentTime > trimRange'.end) =>
       /\ trimRange'.start <= videoEl'.currentTime
       /\ videoEl'.currentTime <= trimRange'.end
       /\ ~video'.isPlaying
       /\ videoEl'.paused]_vars

\* the pointer is beyond the left or the right edge of the axis' box
beyondAxis(clientX) ==
  clientX < RectLeft \/ clientX > RectLeft + rectWidth

\* C21: HoverState is cleared when the pointer leaves the axis while the
\* Controller is not scrubbing, and on every pointer-cancel; so whenever the
\* pointer is outside the axis and no scrub is in progress, HoverState is
\* absent.
C21_NoHoverOutsideAxis ==
  /\ ev.type = "cancel" => hoverInfo = Null
  /\ (ev.type = "leave" /\ ~isScrubbing) => hoverInfo = Null
  /\ (ev.type \in {"down", "move"} /\ beyondAxis(ev.clientX) /\ ~isScrubbing) =>
       hoverInfo = Null

\* the image reference of the first thumbnail nearest to `time`, if any
nearestUrl(frames, time) ==
  IF Len(frames) = 0 THEN Null
  ELSE LET first == CHOOSE i \in 1..Len(frames) :
                      /\ \A j \in 1..Len(frames) :
                           distance(frames, i, time) <= distance(frames, j, time)
                      /\ \A j \in 1..(i - 1) :
                           distance(frames, j, time) > distance(frames, i, time)
       IN frames[first].url

\* C22: HoverState is recomputed only by mouse pointers and never while a
\* trim DragSession is active: a pointer-down or pointer-move of a touch
\* pointer, and any pointer-move during Move/AdjustStart/AdjustEnd, leaves it
\* unchanged; when it is recomputed, its time is the mapped time and its image
\* reference is that of the nearest thumbnail (or none).
C22_HoverOnlyByMouse ==
  [][/\ (ev'.type \in {"down", "move"} /\ pressed' = "touch") => hoverInfo' = hoverInfo
     /\ (ev'.type = "move" /\ trimDrag # Null) => hoverInfo' = hoverInfo
     /\ (hoverInfo' # hoverInfo /\ hoverInfo' # Null) =>
          /\ ev'.type \in {"down", "move"}
          /\ pressed' # "touch"
          /\ trimDrag = Null
          /\ hoverInfo'.x = ev'.clientX - RectLeft
          /\ hoverInfo'.time = mappedTime(ev'.clientX)
          /\ hoverInfo'.url = nearestUrl(video.frames, hoverInfo'.time)]_vars

\* the preview shows a thumbnail other than the first, found for the mapped time
C22_PreviewOfLaterFrame ==
  /\ ev.type = "move"
  /\ pressed = "none"
  /\ hoverInfo # Null
  /\ hoverInfo.url # Null
  /\ hoverInfo.url.index > 0
  /\ hoverInfo.time > 0

\* C23: trimRange is null before any media metadata has loaded, is set to
\* {start: 0, end: duration} when metadata loads, and is set to null when the
\* media is cleared (reset) or a new file is imported; between a new import
\* and its metadata load it stays null.
C23_RangeLifecycle ==
  [][/\ trimRange' # Null => (videoEl' # Null /\ videoEl'.ready)
     /\ ev'.type = "loadedmetadata" => trimRange' = [start |-> 0, end |-> video'.duration]
     /\ ev'.type = "reset" => trimRange' = Null
     /\ (ev'.type = "file" /\ sessionVars' # sessionVars) => trimRange' = Null
     /\ (trimRange = Null /\ trimRange' # Null) => ev'.type = "loadedmetadata"]_vars

(***************************************************************************)
(* The contract of the services and of the session that awaits them        *)
(***************************************************************************)
\* the step is one of ffmpegService, about a call that was not in flight before
entered ==
  /\ ev'.type \in {"settled", "awaiting"}
  /\ ev'.op \in {"loadFFmpeg", "trimVideo", "extractFrames"}
  /\ \A c \in calls : c.by # ev'.by

\* C24: loadFFmpeg memoizes the backend.  Once a load has succeeded the memo
\* stays, and every call made from then on is given that same loaded handle
\* without a load being started; when the load fails the memo is emptied and
\* the awaiting call rejected with the error; a call made while there is
\* neither a loaded handle nor a load in flight starts a fresh load, and no
\* call is ever handed the handle whose load failed.
C24_LoadFFmpegMemoized ==
  [][/\ ffmpeg = Loaded => ffmpeg' = Loaded
     /\ (entered /\ ffmpeg = Loaded) =>
           /\ ev'.ff = Loaded
           /\ ev'.op = "loadFFmpeg" =>
                 (ev'.type = "settled" /\ ev'.outcome = "resolved" /\ ev'.result = ffmpeg)
     /\ (ev'.type = "settled" /\ ev'.ff = Broken /\ \E c \in calls : c.by = ev'.by /\ c.owner) =>
           (ffmpeg' = Null /\ ev'.outcome = "rejected" /\ ev'.result = "error")
     /\ (entered /\ ffmpeg \notin {Loading, Loaded}) =>
           (ffmpeg' = Loading /\ ev'.type = "awaiting" /\ ev'.ff = Loading)
     /\ entered => ev'.ff # Broken]_vars

\* a call has started a fresh load while another call still holds the handle
\* whose load failed
C24_RetriedAfterFailure ==
  /\ ev.type = "awaiting"
  /\ ev.op = "loadFFmpeg"
  /\ ev.ff = Loading
  /\ ffmpeg = Loading
  /\ \E c \in calls : c.ff = Broken

\* a frame extraction has returned its thumbnails
extracted ==
  /\ ev.type = "settled"
  /\ ev.op \in {"extractFrames", "extractFramesWithVideo"}
  /\ ev.outcome = "resolved"

\* min(30, max(10, floor(duration * 1.5))), the duration in hundredths of a second
boundedCount(duration) ==
  LET wanted == (15 * duration) \div 1000
  IN IF wanted < 10 THEN 10 ELSE IF wanted > 30 THEN 30 ELSE wanted

\* C25: frame extraction is bounded.  A frame extraction through either path
\* returns exactly min(30, max(10, floor(duration * 1.5))) thumbnails when the
\* duration is a finite number above 0, hence between 10 and 30 (the FFmpeg
\* path having run the engine once for each); when the duration is zero,
\* negative or not finite it returns the empty sequence, the engine is not
\* run, no thumbnail URL is allocated and no extraction work is ever awaited.
C25_FrameCountBounded ==
  /\ extracted =>
        LET duration == ev.args.duration
        IN IF IsFinite(duration) /\ duration > 0
             THEN /\ Len(ev.result) = boundedCount(duration)
                  /\ Len(ev.result) >= 10
                  /\ Len(ev.result) <= 30
                  /\ ev.op = "extractFrames" => Len(ev.exec) = Len(ev.result)
             ELSE /\ ev.result = <<>>
                  /\ ev.exec = <<>>
  /\ \A c \in calls :
        (/\ c.op \in {"extractFrames", "extractFramesWithVideo"}
         /\ ~(IsFinite(c.args.duration) /\ c.args.duration > 0)) =>
            (c.op = "extractFrames" /\ c.owner)
  /\ (ev.type = "settled" /\ ev.op \in {"extractFrames", "extractFramesWithVideo"}
       /\ ~(IsFinite(ev.args.duration) /\ ev.args.duration > 0)) =>
         (ev.exec = <<>> /\ (ev.outcome = "rejected" => ev.ff = Broken))

\* the FFmpeg path has returned the 30 thumbnails of media 30 s long, for
\* which floor(duration * 1.5) is 45
C25_CappedAtThirty ==
  /\ extracted
  /\ ev.op = "extractFrames"
  /\ ev.args.duration = 3000
  /\ Len(ev.result) = 30

\* C26: the thumbnails are returned in ascending order of timestamp, every
\* timestamp is within [0, duration], and the thumbnail of index i has the
\* timestamp min(max(0, duration - 0.01), i * duration / totalFrames), taken
\* down to the hundredth of a second.
C26_TimestampsAscending ==
  extracted =>
    LET duration == ev.args.duration
        frames == ev.result
    IN /\ \A i \in 1..Len(frames) : \A j \in i..Len(frames) :
            frames[i].timestamp <= frames[j].timestamp
       /\ \A i \in 1..Len(frames) :
            /\ 0 <= frames[i].timestamp
            /\ frames[i].timestamp <= duration
            /\ LET last == IF duration - 1 < 0 THEN 0 ELSE duration - 1
                    even == ((i - 1) * duration) \div boundedCount(duration)
               IN frames[i].timestamp = IF even < last THEN even ELSE last

\* the FFmpeg path has returned thumbnails spread over 10 s of media: the
\* first at 0, the last later than the one before it and before the end
C26_SpreadOverTheMedia ==
  /\ extracted
  /\ ev.op = "extractFrames"
  /\ ev.args.duration = 1000
  /\ ev.result[1].timestamp = 0
  /\ ev.result[Len(ev.result)].timestamp > ev.result[Len(ev.result) - 1].timestamp
  /\ ev.result[Len(ev.result)].timestamp < 1000

\* the thumbnail URLs the session's current frames refer to
referenced == {video.frames[i].url : i \in 1..Len(video.frames)}

\* C27: thumbnail image resources are released when the session resets or a
\* new media is imported.  After reset, and after the import of a file, every
\* thumbnail URL that is still allocated is one the session's current frames
\* refer to.
C27_ThumbnailsReleased ==
  ev.type \in {"reset", "file"} => thumbnailUrls \subseteq referenced

\* the step is the failure of a call that the session's handler `by` awaited
failedFor(by) ==
  /\ ev'.type = "settled"
  /\ ev'.by = by
  /\ ev'.outcome = "rejected"

\* C28: collaborator failures are caught by the session.  In the step in
\* which a frame extraction, an export or an analysis fails, the busy flag of
\* that operation (isProcessing, isExporting, isAnalyzing) is false
\* afterwards, and trimRange, duration, currentTime, the frames, the analysis
\* and the other two busy flags are what they were.
C28_FailuresCaught ==
  [][/\ failedFor("processFrames") =>
           (~video'.isProcessing /\ UNCHANGED <<isExporting, isAnalyzing>>)
     /\ failedFor("handleExport") =>
           (~isExporting' /\ video'.isProcessing = video.isProcessing /\ UNCHANGED isAnalyzing)
     /\ failedFor("handleAnalyze") =>
           (~isAnalyzing' /\ video'.isProcessing = video.isProcessing /\ UNCHANGED isExporting)
     /\ (failedFor("processFrames") \/ failedFor("handleExport") \/ failedFor("handleAnalyze")) =>
           /\ UNCHANGED <<trimRange, aiAnalysis>>
           /\ video'.duration = video.duration
           /\ video'.currentTime = video.currentTime
           /\ video'.frames = video.frames
           /\ video'.file = video.file]_vars

\* an export has failed over media whose thumbnails are shown: the button is
\* free again and the range is still there
C28_ExportFailedAndFreed ==
  /\ ev.type = "settled"
  /\ ev.by = "handleExport"
  /\ ev.outcome = "rejected"
  /\ ~isExporting
  /\ video.frames # <<>>
  /\ trimRange # Null

\* |a - b|
gap(a, b) == IF a < b THEN b - a ELSE a - b

\* the step before was the end of a trimVideo call the Export button made
exported ==
  /\ ev.type = "settled"
  /\ ev.op = "trimVideo"
  /\ ev.by = "handleExport"

\* C29: export trims to the selected interval.  Every run of the transcode
\* engine for an export has start = max(0, min(range.start, range.end)) and
\* length = |range.end - range.start| of the trimRange the export was asked
\* for, the length finite and above 0; an Export that returns early leaves
\* no export in flight; and a trimVideo call whose interval is empty or not
\* finite returns null without a run of the engine.
C29_ExportTrimsSelection ==
  /\ exported =>
        \A i \in 1..Len(ev.exec) :
          LET range == ev.args.range
              low == IF range.start < range.end THEN range.start ELSE range.end
          IN /\ IsFinite(range.start) /\ IsFinite(range.end)
             /\ ev.exec[i].ss = (IF low < 0 THEN 0 ELSE low)
             /\ ev.exec[i].t = gap(range.end, range.start)
             /\ ev.exec[i].t > 0
  /\ ev.type = "export" => (~isExporting /\ \A c \in calls : c.by # "handleExport")
  /\ (ev.type = "settled" /\ ev.op = "trimVideo" /\ ev.outcome = "resolved") =>
        LET length == JsSub(MathMax(ev.args.start, ev.args.end),
                            MathMax(0, MathMin(ev.args.start, ev.args.end)))
        IN (~IsFinite(length) \/ length <= 0) => (ev.result = Null /\ ev.exec = <<>>)

C31_FramesOfCurrentMedia ==
  video.frames # <<>> =>
    /\ video.file # Null
    /\ \A i \in 1..Len(video.frames) : video.frames[i].url.blob = video.file.name

\* C32: every handle loadFFmpeg returns has completed its load.  For every
\* interleaving of overlapping calls, a call that loadFFmpeg has returned to
\* holds a loaded backend: never one whose load is still in flight, and never
\* one whose load has failed.
C32_HandlesAreLoaded ==
  /\ \A c \in calls : (~c.owner /\ c.ff # Null) => c.ff = Loaded
  /\ (ev.type = "settled" /\ ev.op = "loadFFmpeg" /\ ev.outcome = "resolved") =>
        ev.result = Loaded

\* the step is the completion, with frames or with an error, of the frame
\* extraction that was started for the file the session holds
settledOwn ==
  \/ /\ ev'.type \in {"frames", "frames-failed"}
     /\ \E job \in pending \ pending' : job.file = video.file
  \/ /\ ev'.type = "settled"
     /\ ev'.by = "processFrames"
     /\ ev'.args.file = video.file

\* C33: isProcessing covers the extraction of the current file.  An import
\* of a video sets it, and export is disabled while it is set; it is cleared
\* when the extraction started for that file succeeds or fails, and by
\* nothing else short of a reset: in particular not by the completion of an
\* extraction that was started for an earlier file.
C33_ProcessingUntilSettled ==
  [][/\ (video'.file # video.file /\ video'.file # Null) => video'.isProcessing
     /\ video.isProcessing => ~canExport
     /\ settledOwn => ~video'.isProcessing
     /\ (video.isProcessing /\ ~video'.isProcessing) =>
           (settledOwn \/ video'.file = Null)]_vars

\* C34: the session's isPlaying mirrors the Playback Surface.  After every
\* handler (play/pause, seek, skip, trim change, position notification,
\* import, metadata, reset; the element playing on by itself is not one)
\* isPlaying is true exactly when there is a media element and it is not
\* paused.
C34_IsPlayingMirrorsElement ==
  [][ev'.type # "playing" =>
       (video'.isPlaying <=> (videoEl' # Null /\ ~videoEl'.paused))]_vars

\* the step is the session's handling of a position notification while it has
\* a media element and a trimRange
notified ==
  /\ ev'.type = "timeupdate"
  /\ videoEl # Null
  /\ trimRange # Null

\* C35: the session's answer to a position notification.  With a trimRange:
\* a reported position above the range end pauses playback, puts the position
\* at the end and clears isPlaying; a reported position below the range start
\* puts the position at the start and does not pause; any other reported
\* position becomes the session's currentTime, and nothing else changes.
C35_PositionNotification ==
  [][notified =>
       LET position == videoEl.currentTime
       IN IF position > trimRange.end
            THEN /\ videoEl'.paused
                 /\ videoEl'.currentTime = trimRange.end
                 /\ video'.currentTime = trimRange.end
                 /\ ~video'.isPlaying
          ELSE IF position < trimRange.start
            THEN /\ videoEl'.currentTime = trimRange.start
                 /\ video'.currentTime = trimRange.start
                 /\ videoEl'.paused = videoEl.paused
                 /\ video'.isPlaying = video.isPlaying
          ELSE /\ video'.currentTime = position
               /\ videoEl' = videoEl
               /\ video'.isPlaying = video.isPlaying]_vars

\* playback that was brought below the range start has been put back at the
\* start and goes on
C35_PutBackAtStart ==
  /\ ev.type = "timeupdate"
  /\ trimRange # Null
  /\ trimRange.start > 0
  /\ videoEl.currentTime = trimRange.start
  /\ video.currentTime = trimRange.start
  /\ ~videoEl.paused
  /\ video.isPlaying

\* the step is the session's handling of the play button, or of a click on
\* the video, while it has a media element
playPressed ==
  /\ ev'.type = "playpause"
  /\ videoEl # Null

\* C36: play and pause.  Pressed while isPlaying, the button pauses the
\* element and leaves its position alone.  Pressed while not playing, it
\* starts playback from the range start when the position is at or past the
\* range end less 0.02 s, and otherwise from the position confined to the
\* range; the session's currentTime is that starting position and isPlaying
\* is set.  Without a trimRange the range is from 0 to the session's duration
\* and nothing confines the position.
C36_PlayPause ==
  [][playPressed =>
       LET position == videoEl.currentTime
           rangeStart == IF trimRange = Null THEN 0 ELSE trimRange.start
           rangeEnd == IF trimRange = Null THEN video.duration ELSE trimRange.end
           within == IF trimRange = Null THEN position
                     ELSE IF position < rangeStart THEN rangeStart
                     ELSE IF position > rangeEnd THEN rangeEnd
                     ELSE position
           from == IF position >= rangeEnd - 2 THEN rangeStart ELSE within
       IN IF video.isPlaying
            THEN /\ videoEl'.paused
                 /\ ~video'.isPlaying
                 /\ videoEl'.currentTime = position
                 /\ video'.currentTime = video.currentTime
            ELSE /\ ~videoEl'.paused
                 /\ video'.isPlaying
                 /\ videoEl'.currentTime = from
                 /\ video'.currentTime = from]_vars

\* playback has been started over from a range start above 0
C36_StartedFromRangeStart ==
  /\ ev.type = "playpause"
  /\ trimRange # Null
  /\ trimRange.start > 0
  /\ video.isPlaying
  /\ ~videoEl.paused
  /\ videoEl.currentTime = trimRange.start
  /\ video.currentTime = trimRange.start

\* C37: the session's playback position stays on the media.  In every
\* reachable state, whatever the sequence of imports, metadata loads, seeks,
\* skips, trim changes, position notifications and resets,
\* 0 <= currentTime <= duration.
C37_CurrentTimeWithinDuration ==
  /\ 0 <= video.currentTime
  /\ video.currentTime <= video.duration

\* C38: a DragSession never outlives its TimeRange.  A step that makes
\* trimRange null, or changes the media or its duration, leaves no DragSession
\* active, so that no later pointer-move resolves against an originRange of
\* what has gone; and no emission of the Timeline ever replaces a null
\* trimRange.
C38_DragSessionEndsWithRange ==
  [][/\ (trimDrag # Null /\ (\/ trimRange' = Null
                              \/ video'.duration # video.duration
                              \/ video'.file # video.file)) => trimDrag' = Null
     /\ (ev'.type = "move" /\ ev'.trims # <<>>) => trimRange # Null]_vars

\* C39: the progress of an extraction, as the session is told it.  Every
\* value handed to the session's progress callback during one extraction lies
\* in [0, 1] and is not below the value handed to it before, on the native
\* path, on the FFmpeg path and across the fall back from one to the other;
\* and when the extraction succeeds the last value handed over was 1.
C39_ProgressMonotone ==
  /\ ev.type = "progress" =>
       /\ 0 <= ev.p.num
       /\ ev.p.num <= ev.p.den
       /\ ev.delivered # Null =>
            ev.delivered.num * ev.p.den <= ev.p.num * ev.delivered.den
  /\ (ev.type = "settled" /\ ev.op = "extractTimelineFrames" /\ ev.outcome = "resolved") =>
       /\ ev.delivered # Null
       /\ ev.delivered.num = ev.delivered.den
====
